---- MODULE Spec2Model ----
(***************************************************************************)
(* s3-checker: candidate generation, concurrent scan (worker pool, rate    *)
(* ticker, status filters) and the sequential scanners with permission     *)
(* classification.  The repository holds several revisions of main.go;     *)
(* each revision that behaves differently is modelled under its own name.  *)
(* Strings are TLA+ strings; fmt.Sprintf is modelled by substitution of    *)
(* the verbs of the format, so string equality is exact.                   *)
(***************************************************************************)
EXTENDS Bags, FiniteSets, Integers, Sequences, TLC

(* ---------------- bounds ---------------- *)

\* longest word list handed to generateWordlist
MaxWords == 2
\* largest value of the -c flag (size of the worker pool)
MaxConc == 2
\* most names one feed returns
MaxFeed == 1
\* how many iterations of a sequential scanBuckets loop are followed
MaxScan == 2

(* ---------------- generic helpers ---------------- *)

Range(s) == { s[i] : i \in 1..Len(s) }

\* all sequences over S of length 0..n
SeqsUpTo(S, n) == UNION { [1..k -> S] : k \in 0..n }

\* strconv / %d : decimal digits of a non-negative integer
Digit(d) == CASE d = 0 -> "0" [] d = 1 -> "1" [] d = 2 -> "2" [] d = 3 -> "3"
              [] d = 4 -> "4" [] d = 5 -> "5" [] d = 6 -> "6" [] d = 7 -> "7"
              [] d = 8 -> "8" [] d = 9 -> "9"

RECURSIVE Itoa(_)
Itoa(n) == IF n < 10 THEN Digit(n) ELSE Itoa(n \div 10) \o Digit(n % 10)

\* a format is a sequence of pieces; the pieces "%s" and "%d" are verbs that
\* consume the next argument, every other piece is copied literally
IsVerb(p) == p \in {"%s", "%d"}

RECURSIVE Sprintf(_, _)
Sprintf(f, args) ==
    IF f = <<>> THEN ""
    ELSE IF IsVerb(Head(f))
         THEN Head(args) \o Sprintf(Tail(f), Tail(args))
         ELSE Head(f) \o Sprintf(Tail(f), args)

(* ---------------- wordlist generation ---------------- *)

\* faulty variant: the last environment tag is lost
environments_noTest ==
    << "dev", "development", "stage", "s3",
       "staging", "prod", "production" >>

environments ==
    << "dev", "development", "stage", "s3",
       "staging", "prod", "production", "test" >>

\* faulty variant: the template "%s-%s%s" is missing
envFormats_four ==
    << << "%s", "-", "%s", "-", "%s" >>,
       << "%s", "-", "%s", ".", "%s" >>,
       << "%s", ".", "%s", "-", "%s" >>,
       << "%s", ".", "%s", ".", "%s" >> >>

envFormats ==
    << << "%s", "-", "%s", "-", "%s" >>,
       << "%s", "-", "%s", ".", "%s" >>,
       << "%s", "-", "%s", "%s" >>,
       << "%s", ".", "%s", "-", "%s" >>,
       << "%s", ".", "%s", ".", "%s" >> >>

hostFormats ==
    << << "%s", ".", "%s" >>,
       << "%s", "-", "%s" >>,
       << "%s", "%s" >> >>

NEnv == Len(environments)
NEnvF == Len(envFormats)
NHostF == Len(hostFormats)

\* the first loop nest: one map insertion per word, environment and format,
\* in loop order (word outermost, format innermost)
envInsertions(prefix, words) ==
    [ k \in 1..(Len(words) * NEnv * NEnvF) |->
        LET w == ((k - 1) \div (NEnv * NEnvF)) + 1
            e == (((k - 1) \div NEnvF) % NEnv) + 1
            f == ((k - 1) % NEnvF) + 1
        IN  Sprintf(envFormats[f], << prefix, words[w], environments[e] >>) ]

\* the second loop nest: per word and host format, (prefix, word) and then
\* (word, prefix)
hostInsertions(prefix, words) ==
    [ k \in 1..(Len(words) * NHostF * 2) |->
        LET w == ((k - 1) \div (NHostF * 2)) + 1
            f == (((k - 1) \div 2) % NHostF) + 1
            swap == ((k - 1) % 2) = 1
        IN  IF swap THEN Sprintf(hostFormats[f], << words[w], prefix >>)
                    ELSE Sprintf(hostFormats[f], << prefix, words[w] >>) ]

\* faulty variant: the assignment unique[prefix] is missing
permutationKeys_noPrefix(prefix, words) ==
    Range(envInsertions(prefix, words)) \cup Range(hostInsertions(prefix, words))

\* the key set of the map `unique` after the permutation loops
\* (part_001:102-128, part_003:306-332 and the identical copies)
permutationKeys(prefix, words) ==
    {prefix} \cup Range(envInsertions(prefix, words))
             \cup Range(hostInsertions(prefix, words))

\* the key set of the map in the first revision, which has no host loop
permutationKeys_envOnly(prefix, words) ==
    {prefix} \cup Range(envInsertions(prefix, words))

\* `for k := range unique { result = append(result, k) }`: every key once, in
\* the unspecified order of map iteration; the list is kept as the bag of its
\* elements, which is what every order has in common
collect(unique) == SetToBag(unique)

\* main.go:228 (first revision)
generateWordlist_envOnly(prefix, words) ==
    collect(permutationKeys_envOnly(prefix, words))

\* part_001:101 and its copies
generateWordlist(prefix, words) ==
    collect(permutationKeys(prefix, words))

\* part_003:305 : the permutations plus whatever the two feeds returned (ghw
\* a list, osint the set of the elements of a list)
generateWordlist_feeds(prefix, words, ghw, osint) ==
    collect(permutationKeys(prefix, words) \cup Range(ghw) \cup osint)


(* ---------------- strings ---------------- *)

\* the i-th byte of s, as a string
At(s, i) == SubSeq(s, i, i)

IsSpace(c) == c \in { " ", "\t", "\n", "\r" }
IsDigit(c) == c \in { "0", "1", "2", "3", "4", "5", "6", "7", "8", "9" }

DigitVal(c) == CASE c = "0" -> 0 [] c = "1" -> 1 [] c = "2" -> 2 [] c = "3" -> 3
                 [] c = "4" -> 4 [] c = "5" -> 5 [] c = "6" -> 6 [] c = "7" -> 7
                 [] c = "8" -> 8 [] c = "9" -> 9

\* strings.TrimSpace
RECURSIVE TrimLeft(_)
TrimLeft(s) == IF Len(s) > 0 /\ IsSpace(At(s, 1))
               THEN TrimLeft(SubSeq(s, 2, Len(s))) ELSE s

RECURSIVE TrimRight(_)
TrimRight(s) == IF Len(s) > 0 /\ IsSpace(At(s, Len(s)))
                THEN TrimRight(SubSeq(s, 1, Len(s) - 1)) ELSE s

TrimSpace(s) == TrimRight(TrimLeft(s))

\* strings.Split(s, ","): the pieces between the commas (one piece, possibly
\* empty, when there is no comma)
RECURSIVE SplitFrom(_, _, _)
SplitFrom(s, start, i) ==
    IF i > Len(s) THEN << SubSeq(s, start, Len(s)) >>
    ELSE IF At(s, i) = ","
         THEN << SubSeq(s, start, i - 1) >> \o SplitFrom(s, i + 1, i + 1)
         ELSE SplitFrom(s, start, i + 1)

Split(s) == SplitFrom(s, 1, 1)

\* strconv.Atoi on the decimal strings the flag can hold: ok is FALSE (err
\* non-nil) for the empty string and for any non-digit byte
RECURSIVE DigitsVal(_)
DigitsVal(s) == IF Len(s) = 0 THEN 0
                ELSE 10 * DigitsVal(SubSeq(s, 1, Len(s) - 1)) + DigitVal(At(s, Len(s)))

Atoi(s) ==
    IF Len(s) > 0 /\ \A i \in 1..Len(s) : IsDigit(At(s, i))
    THEN [ ok |-> TRUE, val |-> DigitsVal(s) ]
    ELSE [ ok |-> FALSE, val |-> 0 ]

\* bufio.Scanner with the default split function ScanLines: the pieces that
\* end in a newline, each without one trailing carriage return, and the rest
\* of the input when it is not empty
DropCR(s) == IF Len(s) > 0 /\ At(s, Len(s)) = "\r" THEN SubSeq(s, 1, Len(s) - 1) ELSE s

RECURSIVE ScanLinesFrom(_, _, _)
ScanLinesFrom(s, start, i) ==
    IF i > Len(s)
    THEN IF start > Len(s) THEN << >> ELSE << DropCR(SubSeq(s, start, Len(s))) >>
    ELSE IF At(s, i) = "\n"
         THEN << DropCR(SubSeq(s, start, i - 1)) >> \o ScanLinesFrom(s, i + 1, i + 1)
         ELSE ScanLinesFrom(s, start, i + 1)

ScanLines(s) == ScanLinesFrom(s, 1, 1)

\* the loop of initWordlist, loadEmbeddedWordlist and loadCustomWordlist: the
\* trimmed lines that are not empty
RECURSIVE keepNonBlank(_)
keepNonBlank(lines) ==
    IF lines = << >> THEN << >>
    ELSE LET line == TrimSpace(Head(lines))
         IN  IF line # "" THEN << line >> \o keepNonBlank(Tail(lines))
             ELSE keepNonBlank(Tail(lines))

scanWords(content) == keepNonBlank(ScanLines(content))

(* ---------------- concurrent scanner: pure parts ---------------- *)

Red == "\\033[31m"
Green == "\\033[32m"
Yellow == "\\033[33m"
Cyan == "\\033[36m"
Reset == "\\033[0m"

colorStatus(code) ==
    IF code >= 200 /\ code < 300 THEN Green
    ELSE IF code >= 300 /\ code < 400 THEN Yellow
    ELSE IF code >= 400 /\ code < 500 THEN Red
    ELSE Cyan

\* parseExclude: the set excludeStatus after the call, starting from `old`
parseExclude(old, input) ==
    IF input = "" THEN old
    ELSE LET parts == Split(input)
         IN  old \cup { Atoi(TrimSpace(parts[i])).val :
                          i \in { j \in 1..Len(parts) : Atoi(TrimSpace(parts[j])).ok } }

\* faulty variant: the lookup never finds the code
isExcluded_never(excl, code) == FALSE

isExcluded(excl, code) == code \in excl

\* "http://%s.s3.amazonaws.com"
bucketURL(bucket) == Sprintf(<< "http://", "%s", ".s3.amazonaws.com" >>, << bucket >>)

\* what the endpoint answers to one GET: a transport error, or a status
NetErr == [ err |-> TRUE, status |-> 0 ]
HttpStatuses == { 200, 301, 403, 404 }
Responses == { NetErr } \cup { [ err |-> FALSE, status |-> c ] : c \in HttpStatuses }

\* faulty variant: only the statuses 200 and 403 count as existing
checkBucket_narrow(bucket, resp) ==
    IF resp.err
    THEN [ exists |-> FALSE, code |-> 0, url |-> bucketURL(bucket) ]
    ELSE [ exists |-> resp.status \in { 200, 403 }, code |-> resp.status,
           url |-> bucketURL(bucket) ]

\* faulty variant: a failed GET counts as a bucket that exists
checkBucket_errExists(bucket, resp) ==
    IF resp.err
    THEN [ exists |-> TRUE, code |-> 0, url |-> bucketURL(bucket) ]
    ELSE [ exists |-> resp.status # 404, code |-> resp.status, url |-> bucketURL(bucket) ]

\* checkBucket (part_003:138-149): exists, code, url for one response
checkBucket(bucket, resp) ==
    IF resp.err
    THEN [ exists |-> FALSE, code |-> 0, url |-> bucketURL(bucket) ]
    ELSE [ exists |-> resp.status # 404, code |-> resp.status, url |-> bucketURL(bucket) ]

\* the worker's three `continue` tests (part_003:364-372): TRUE when the
\* result goes on to be printed
passesFilters(exists, code, filter, excl) ==
    IF ~exists THEN FALSE
    ELSE IF filter # 0 /\ code # filter THEN FALSE
    ELSE IF isExcluded(excl, code) THEN FALSE
    ELSE TRUE

\* the worker's result line (part_003:376-382)
foundLine(url, code) ==
    Sprintf(<< "%s", " [", "%s", "%d", "%s", "] [S3 Bucket Found]" >>,
            << url, colorStatus(code), Itoa(code), Reset >>)

\* all orders of a finite set
Perms(S) == { f \in [ 1..Cardinality(S) -> S ] :
                \A i, j \in 1..Cardinality(S) : f[i] = f[j] => i = j }

(* ---------------- sequential scanners: pure parts ---------------- *)

\* "%-10s": left-justified in a field of width n
RECURSIVE PadRight(_, _)
PadRight(str, n) == IF Len(str) >= n THEN str ELSE PadRight(str \o " ", n)

Upper == "ABCDEFGHIJKLMNOPQRSTUVWXYZ"
Lower == "abcdefghijklmnopqrstuvwxyz"

LowerChar(c) ==
    IF \E i \in 1..Len(Upper) : At(Upper, i) = c
    THEN At(Lower, CHOOSE i \in 1..Len(Upper) : At(Upper, i) = c)
    ELSE c

\* strings.ToLower
RECURSIVE ToLower(_)
ToLower(str) == IF Len(str) = 0 THEN ""
                ELSE LowerChar(At(str, 1)) \o ToLower(SubSeq(str, 2, Len(str)))

\* strings.Contains
Contains(str, sub) ==
    \E i \in 1..(Len(str) - Len(sub) + 1) : SubSeq(str, i, i + Len(sub) - 1) = sub

(* ---------------- the feeds of part_003: pure parts ---------------- *)

\* values of the environment variable GHW_API_KEY
ApiKeys == { "", "k" }

\* bucket names a feed's payload can hold ("acme" is also a target)
FeedNames == { "acme", "acme-backup" }

\* what the GrayHatWarfare request meets: the key, whether http.Get fails,
\* the status, whether the body decodes as JSON, and the bucketName values
\* that the body holds
GhwAnswers ==
    { [ key |-> k, err |-> TRUE, status |-> 0, decodes |-> FALSE, names |-> << >> ] :
        k \in ApiKeys }
    \cup
    { [ key |-> k, err |-> FALSE, status |-> st, decodes |-> d, names |-> n ] :
        k \in ApiKeys, st \in { 200, 403 }, d \in BOOLEAN,
        n \in SeqsUpTo(FeedNames, MaxFeed) }

\* fetchFromGrayHatWarfare (part_003:167-196)
fetchFromGrayHatWarfare(a) ==
    IF a.key = "" THEN << >>
    ELSE IF a.err THEN << >>
    ELSE IF a.status # 200 THEN << >>
    ELSE IF ~a.decodes THEN << >>
    ELSE a.names

\* strings the first regular expression of fetchFromOsintSh can match in a
\* page: a bucket name and a string with a doubled hyphen
ScrapedWords == { "acme-backup", "ab--cd" }

\* what the osint.sh request meets: OSINT_SH_DISABLE=1 or not, whether Do
\* fails, the status, whether reading the body fails, the names in S3 URLs of
\* the body (urlMatches) and the other matches (potential)
OsintAnswers ==
    { [ disable |-> d, err |-> TRUE, status |-> 0, readErr |-> FALSE,
        urlMatches |-> << >>, potential |-> << >> ] : d \in BOOLEAN }
    \cup
    { [ disable |-> d, err |-> FALSE, status |-> st, readErr |-> r,
        urlMatches |-> u, potential |-> q ] :
        d \in BOOLEAN, st \in { 200, 500 }, r \in BOOLEAN,
        u \in SeqsUpTo({ "acme" }, MaxFeed), q \in SeqsUpTo(ScrapedWords, MaxFeed) }

\* fetchFromOsintSh (part_003:201-273): the key set of its map `unique`; the
\* returned slice holds these keys in the order of a map iteration
fetchFromOsintSh(a) ==
    IF a.disable THEN {}
    ELSE IF a.err THEN {}
    ELSE IF a.status # 200 THEN {}
    ELSE IF a.readErr THEN {}
    ELSE Range(a.urlMatches)
         \cup { name \in Range(a.potential) :
                    /\ Len(name) > 3 /\ Len(name) < 64
                    /\ ~Contains(name, "..") /\ ~Contains(name, "--") }

\* S3.Exists of the first sequential revision (main.go:107-122)
Exists_301(resp) ==
    IF resp.err THEN [ exists |-> FALSE, code |-> 0 ]
    ELSE IF resp.status = 200 \/ resp.status = 403 \/ resp.status = 301
         THEN [ exists |-> TRUE, code |-> resp.status ]
         ELSE [ exists |-> FALSE, code |-> resp.status ]

\* S3.Check (part_000:71-89, main.go:1131-1149, part_002:418-436)
Check(resp) ==
    IF resp.err THEN [ code |-> 0, perm |-> "" ]
    ELSE IF resp.status = 200 THEN [ code |-> 200, perm |-> "PUBLIC" ]
    ELSE IF resp.status = 403 THEN [ code |-> 403, perm |-> "PRIVATE" ]
    ELSE [ code |-> resp.status, perm |-> "" ]

\* answers to the HEAD request of GetRegion
Heads == { [ err |-> TRUE, hdr |-> "" ], [ err |-> FALSE, hdr |-> "" ],
           [ err |-> FALSE, hdr |-> "eu-west-1" ] }

\* S3.GetRegion (main.go:126-139): hdr is the x-amz-bucket-region header
GetRegion(head) ==
    IF head.err THEN "us-east-1"
    ELSE IF head.hdr = "" THEN "us-east-1" ELSE head.hdr

\* S3.GetRegion of the second sequential revision (main.go:475-488)
GetRegion_second(head) ==
    IF head.err THEN "unknown"
    ELSE IF head.hdr = "" THEN "us-east-1" ELSE head.hdr

\* what the aws CLI does for one call: whether the binary is on the PATH,
\* whether the command exits with success, and what it printed
AwsRuns ==
    { [ found |-> FALSE, ok |-> FALSE, out |-> "" ],
      [ found |-> TRUE, ok |-> TRUE, out |-> "" ],
      [ found |-> TRUE, ok |-> TRUE,
        out |-> "{\"Grantee\": \"global/AllUsers\", \"Permission\": \"READ\"}" ],
      [ found |-> TRUE, ok |-> TRUE,
        out |-> "{\"Grantee\": \"global/AllUsers\", \"Permission\": \"READ_ACP\"}" ],
      [ found |-> TRUE, ok |-> FALSE, out |-> "An error occurred (AccessDenied): Access Denied" ],
      [ found |-> TRUE, ok |-> FALSE, out |-> "Could not connect to the endpoint URL" ] }

\* checkACL (main.go:143-177): the pair authUsers, allUsers
checkACL(useAWS, aws) ==
    IF ~useAWS THEN << "[]", "[]" >>
    ELSE IF ~aws.found THEN << "[]", "[]" >>
    ELSE IF ~aws.ok THEN << "[]", "[]" >>
    ELSE LET data == ToLower(aws.out)
         IN  IF Contains(data, "allusers")
             THEN IF Contains(data, "read_acp") THEN << "[]", "[READ, READ_ACP]" >>
                  ELSE IF Contains(data, "read") THEN << "[]", "[READ]" >>
                  ELSE << "[]", "[]" >>
             ELSE << "[]", "[]" >>

\* what the endpoint answers to the listing request ?list-type=2: a
\* transport error, or a status with a body that parses (sizes of the
\* Contents entries) or does not
ListErr == [ err |-> TRUE, status |-> 0, parses |-> FALSE, sizes |-> << >> ]
Listings ==
    { ListErr,
      [ err |-> FALSE, status |-> 403, parses |-> TRUE, sizes |-> << >> ],
      [ err |-> FALSE, status |-> 200, parses |-> FALSE, sizes |-> << >> ],
      [ err |-> FALSE, status |-> 200, parses |-> TRUE, sizes |-> << >> ],
      [ err |-> FALSE, status |-> 200, parses |-> TRUE, sizes |-> << 1024, 512 >> ] }

RECURSIVE SumSeq(_)
SumSeq(q) == IF q = << >> THEN 0 ELSE Head(q) + SumSeq(Tail(q))

\* getBucketStats (main.go:181-206): count and total size
getBucketStats(list) ==
    IF list.err \/ list.status # 200 THEN << 0, 0 >>
    ELSE IF ~list.parses THEN << 0, 0 >>
    ELSE << Len(list.sizes), SumSeq(list.sizes) >>

\* "%.1f" of bytes/1024 for values below 1024: the tenths, rounded half to even
KBTenths(bytes) ==
    LET q == (bytes * 10) \div 1024
        r == (bytes * 10) % 1024
    IN  IF r > 512 \/ (r = 512 /\ q % 2 = 1) THEN q + 1 ELSE q

\* humanSize (main.go:210-224), for totals below one megabyte
humanSize(bytes) ==
    IF bytes <= 0 THEN "0 B"
    ELSE Sprintf(<< "%d", ".", "%d", " KB" >>,
                 << Itoa(KBTenths(bytes) \div 10), Itoa(KBTenths(bytes) % 10) >>)

\* classifyPermissions of main.go:1153-1185: the HTTP listing and the CLI are
\* both consulted and either one makes the bucket PUBLIC
classifyPermissions_either(list, useAWS, aws) ==
    LET httpPublic == ~list.err /\ list.status = 200
        awsPublic == useAWS /\ aws.found /\ aws.ok
    IN  IF httpPublic \/ awsPublic THEN "PUBLIC" ELSE "PRIVATE"

\* faulty variant: the -aws flag is not looked at
awsPermissionCheck_noFlag(useAWS, aws) ==
    IF ~aws.found THEN ""
    ELSE IF aws.ok THEN "PUBLIC"
    ELSE IF Contains(ToLower(aws.out), "access denied")
            \/ Contains(ToLower(aws.out), "all access disabled")
         THEN "PRIVATE"
         ELSE ""

\* awsPermissionCheck (part_002:440-472)
awsPermissionCheck(useAWS, aws) ==
    IF ~useAWS THEN ""
    ELSE IF ~aws.found THEN ""
    ELSE IF aws.ok THEN "PUBLIC"
    ELSE IF Contains(ToLower(aws.out), "access denied")
            \/ Contains(ToLower(aws.out), "all access disabled")
         THEN "PRIVATE"
         ELSE ""

\* S3.Exists of the second sequential revision (main.go:458-471)
Exists(resp) ==
    IF resp.err THEN [ exists |-> FALSE, code |-> 0 ]
    ELSE IF resp.status = 200 \/ resp.status = 403
         THEN [ exists |-> TRUE, code |-> resp.status ]
         ELSE [ exists |-> FALSE, code |-> resp.status ]

\* classifyPermissions of main.go:492-517: whether the CLI is run at all
\* (only when the listing did not answer 200, -aws is set and the binary is
\* found), and the result
classifyRunsCLI(list, useAWS, aws) ==
    ~(~list.err /\ list.status = 200) /\ useAWS /\ aws.found

classifyPermissions(list, useAWS, aws) ==
    IF ~list.err /\ list.status = 200 THEN "PUBLIC"
    ELSE IF useAWS /\ aws.found /\ aws.ok THEN "PUBLIC"
    ELSE "PRIVATE"

\* getObjectCount (main.go:521-541)
getObjectCount(list) ==
    IF list.err \/ list.status # 200 THEN -1
    ELSE IF ~list.parses THEN -1
    ELSE Len(list.sizes)

\* "%s | %d | %s" (part_000:175, part_002:539, main.go:1253)
resultLine(url, code, perm) ==
    Sprintf(<< "%s", " | ", "%d", " | ", "%s" >>, << url, Itoa(code), perm >>)

\* the three lines of the first sequential revision (main.go:289, 304, 314)
notExistLine(url, code) ==
    Sprintf(<< "INFO ", "%s", " | ", "%s", " | status:", "%d" >>,
            << PadRight("not_exist", 10), url, Itoa(code) >>)

privateLine(url, region) ==
    Sprintf(<< "INFO ", "%s", " | ", "%s", " | ", "%s", " | PRIVATE" >>,
            << PadRight("exists", 10), url, PadRight(region, 10) >>)

statsLine(url, region, authUsers, allUsers, count, size) ==
    Sprintf(<< "INFO ", "%s", " | ", "%s", " | ", "%s", " | AuthUsers:", "%s",
               " | AllUsers:", "%s", " | ", "%d", " objects (", "%s", ")" >>,
            << PadRight("exists", 10), url, PadRight(region, 10), authUsers,
               allUsers, Itoa(count), humanSize(size) >>)

(* ======================================================================= *)
(* State                                                                   *)
(* ======================================================================= *)

VARIABLES
    \* --- a call of generateWordlist on its own ---
    gpc,        \* "call" before the call, "feeds" after the permutation
                \* loops of the feed revision, "ret" after the return
    gfn,        \* which revision was called
    gprefix,    \* argument prefix
    gwords,     \* argument words
    gunique,    \* key set of the local map `unique`
    gret,       \* the returned list, as the bag of its elements
    gghw,       \* what fetchFromGrayHatWarfare returned to this call
    gosint,     \* what fetchFromOsintSh returned to this call
    gprev,      \* the call made before this one, if any
    \* --- the concurrent scanner (part_003): flags ---
    target,         \* -t
    concurrency,    \* -c
    rateLimit,      \* -r
    statusFilter,   \* -s, 0 when not given
    exclude,        \* -e, the raw flag string
    outputPath,     \* -o, "" when not given
    \* --- globals and locals of main ---
    excludeStatus,  \* the set of excluded codes
    words,          \* the loaded word list
    wordlist,       \* the candidates, in the order main ranges over them
    outFile,        \* "nil" or "open"
    ticker,         \* TRUE once time.Tick has been called
    mainpc,         \* where main is
    spawned,        \* workers started so far (loop variable i)
    sent,           \* candidates sent so far
    wg,             \* the WaitGroup counter
    doneReport,     \* the count printed by the Done line, -1 before
    \* --- channels ---
    jobs,           \* buffered contents of the jobs channel
    jobsClosed,     \* close(jobs) has happened
    token,          \* ticks buffered in the ticker channel (capacity 1)
    \* --- workers ---
    wpc,            \* where each worker is
    wbucket,        \* its current bucket
    wres,           \* checkBucket's return values for it
    \* --- shared counter and outputs ---
    totalChecks,
    console,        \* result lines printed, as a bag
    fileLines,      \* lines written to the output file, as a bag
    \* --- observation ---
    probes,         \* per candidate, how many GETs were issued for it
    results,        \* per candidate, the GET's outcome and what checkBucket
                    \* returned for it
    writeFailed,    \* the candidates whose line WriteString failed to write
    clock,          \* time since time.Tick was called, in half tick intervals
    starts,         \* the clock at each `<-rate` that returned, that is at
                    \* each start of a rate-limited probe
    \* --- the sequential scanners (scanBuckets of the other revisions) ---
    srev,           \* which revision runs
    suseAWS,        \* the -aws flag
    sfileOpen,      \* whether file != nil
    slist,          \* the leading part of the list scanBuckets ranges over
    si,             \* iterations done
    sseen,          \* the map `seen` (first revision)
    sconsole,       \* lines printed, in order
    sfile,          \* lines written to the file, in order
    sobs,           \* per iteration: what was observed and decided
    sphase,         \* "scan", then "grayhat" and "osint" while main runs
                    \* searchGrayHat and searchOSINT
    smatches,       \* the regular-expression matches the search ranges over
    sj,             \* iterations of that loop done
    sfseen,         \* its map `seen`
    sfeeds,         \* per search: what the feed answered, what was taken
                    \* from the answer and how many probes had been made
    \* --- loading the word list (main up to the scan) ---
    lrev,           \* which revision runs
    lpc,            \* where main is
    ltarget,        \* -t
    lpath,          \* -w
    lfile,          \* what reading the file named by -w gives
    lembedded,      \* the embedded common_bucket_prefixes.txt
    lout,           \* -o
    globalWordlist, \* the loaded words (`words` in part_003)
    lwordlist,      \* the candidates generateWordlist returned, as a set
    lscanned,       \* how many of them have been probed
    lconsole,       \* the error lines printed
    \* --- the workers' writes, one Write call in several steps ---
    wrpc,           \* per worker: which Printf / WriteString it is in and
                    \* how far, for which job, and whether the job is accepted
    wrjobs,         \* candidates not yet received
    wrfile,         \* outFile != nil
    wrlock,         \* per destination: the worker that holds the write lock
                    \* of the file descriptor, 0 when it is free
    wrbusy,         \* per destination: the workers inside a Write call
    wrstream,       \* per destination: the pieces written, in order
    \* --- one candidate of scanBuckets, one request per step ---
    prev,           \* which revision runs
    paws,           \* the -aws flag
    ppc,            \* the call scanBuckets makes next for the candidate
    psig,           \* the requests sent and CLI runs made so far, with their
                    \* answers, in order
    pexists,        \* what the existence probe said
    pcode,          \* its status code
    pperm,          \* the permission so far ("" while there is none)
    pcount,         \* the object count (-2 while there is none)
    plook,          \* what exec.LookPath("aws") found ("none" while not asked)
    pregion,        \* what GetRegion returned ("" while not called)
    \* the network calls of one pass, second by second
    nprog,          \* which code makes the calls
    nkey,           \* GHW_API_KEY is set
    ndisable,       \* OSINT_SH_DISABLE is "1"
    nsite,          \* the call the code is at
    npc,            \* "ready" before the request, "waiting" for its answer
    nsilent,        \* the endpoint of the request in flight never answers
    nwait,          \* seconds the request in flight has waited
    \* the progress counter of the workers, statement by statement
    pgn,            \* number of workers
    pgjobs,         \* candidates not yet received
    pgpc,           \* per worker: the statement it is at
    pgtotal,        \* totalChecks
    pgdone,         \* checkBucket calls that have returned
    pgval,          \* per worker: the value atomic.LoadUint64 gave it
    pgout           \* the progress lines in the order they were printed

genVars == << gpc, gfn, gprefix, gwords, gunique, gret, gghw, gosint, gprev >>

flagVars == << target, concurrency, rateLimit, statusFilter, exclude, outputPath >>
mainVars == << excludeStatus, words, wordlist, outFile, ticker, mainpc, spawned,
               sent, wg, doneReport >>
chanVars == << jobs, jobsClosed, token >>
workerVars == << wpc, wbucket, wres >>
outVars == << totalChecks, console, fileLines >>
obsVars == << probes, results, writeFailed >>
timeVars == << clock, starts >>

scanVars == << flagVars, mainVars, chanVars, workerVars, outVars, obsVars, timeVars >>

seqVars == << srev, suseAWS, sfileOpen, slist, si, sseen, sconsole, sfile, sobs,
             sphase, smatches, sj, sfseen, sfeeds >>

loadVars == << lrev, lpc, ltarget, lpath, lfile, lembedded, lout, globalWordlist,
               lwordlist, lscanned, lconsole >>

wrVars == << wrpc, wrjobs, wrfile, wrlock, wrbusy, wrstream >>

permVars == << prev, paws, ppc, psig, pexists, pcode, pperm, pcount, plook, pregion >>

netVars == << nprog, nkey, ndisable, nsite, npc, nsilent, nwait >>

progVars == << pgn, pgjobs, pgpc, pgtotal, pgdone, pgval, pgout >>

vars == << genVars, scanVars, seqVars, loadVars, wrVars, permVars, netVars, progVars >>

(* ======================================================================= *)
(* generateWordlist called on bounded inputs                               *)
(* ======================================================================= *)

\* targets and words: a word is a trimmed non-blank line; "b", "b-" and "b."
\* make different templates produce equal strings, "b" is also a target
Targets == { "acme", "a", "b" }
Words == { "data", "b", "b-", "b." }

\* the scanner's variables while only generateWordlist is exercised
ScanIdle ==
    /\ target = "" /\ concurrency = 0 /\ rateLimit = 0 /\ statusFilter = 0
    /\ exclude = "" /\ outputPath = ""
    /\ excludeStatus = {} /\ words = << >> /\ wordlist = << >>
    /\ outFile = "nil" /\ ticker = FALSE /\ mainpc = "off" /\ spawned = 0
    /\ sent = 0 /\ wg = 0 /\ doneReport = -1
    /\ jobs = << >> /\ jobsClosed = FALSE /\ token = 0
    /\ wpc = << >> /\ wbucket = << >> /\ wres = << >>
    /\ totalChecks = 0 /\ console = EmptyBag /\ fileLines = EmptyBag
    /\ probes = << >> /\ results = << >> /\ writeFailed = {}
    /\ clock = 0 /\ starts = << >>

\* the sequential scanners' variables while they do not run
SeqIdle ==
    /\ srev = "none" /\ suseAWS = FALSE /\ sfileOpen = FALSE /\ slist = << >>
    /\ si = 0 /\ sseen = {} /\ sconsole = << >> /\ sfile = << >> /\ sobs = << >>
    /\ sphase = "off" /\ smatches = << >> /\ sj = 0 /\ sfseen = {} /\ sfeeds = << >>

\* the variables of the progress counter while no worker runs
ProgIdle ==
    /\ pgn = 0 /\ pgjobs = 0 /\ pgpc = << >> /\ pgtotal = 0 /\ pgdone = 0
    /\ pgval = << >> /\ pgout = << >>

\* the variables of the network calls while nothing is followed
NetIdle ==
    /\ nprog = "none" /\ nkey = FALSE /\ ndisable = FALSE /\ nsite = "off"
    /\ npc = "off" /\ nsilent = FALSE /\ nwait = 0

\* the variables of the one-candidate scan while it does not run
PermIdle ==
    /\ prev = "none" /\ paws = FALSE /\ ppc = "off" /\ psig = << >>
    /\ pexists = FALSE /\ pcode = 0 /\ pperm = "" /\ pcount = -2
    /\ plook = "none"
    /\ pregion = ""

\* the variables of the step-by-step writes while they are not followed
WrIdle ==
    /\ wrpc = << >> /\ wrjobs = 0 /\ wrfile = FALSE
    /\ wrlock = << >> /\ wrbusy = << >> /\ wrstream = << >>

\* the loader's variables while it does not run
LoadIdle ==
    /\ lrev = "none" /\ lpc = "off" /\ ltarget = "" /\ lpath = ""
    /\ lfile = [ err |-> FALSE, data |-> "" ] /\ lembedded = "" /\ lout = ""
    /\ globalWordlist = << >> /\ lwordlist = {} /\ lscanned = 0 /\ lconsole = << >>

\* the generator's variables while the scanner runs
GenIdle ==
    /\ gpc = "off" /\ gfn = "none" /\ gprefix = "" /\ gwords = << >>
    /\ gunique = {} /\ gret = EmptyBag
    /\ gghw = << >> /\ gosint = << >> /\ gprev = << >>

GenInit ==
    /\ ScanIdle
    /\ SeqIdle
    /\ LoadIdle
    /\ WrIdle
    /\ PermIdle
    /\ NetIdle
    /\ ProgIdle
    /\ gpc = "call"
    /\ gfn = "none"
    /\ gprefix \in Targets
    /\ gwords \in SeqsUpTo(Words, MaxWords)
    /\ gunique = {}
    /\ gret = EmptyBag
    /\ gghw = << >>
    /\ gosint = << >>
    /\ gprev = << >>

\* main.go:228-252
GenCall_envOnly ==
    /\ gpc = "call"
    /\ gpc' = "ret"
    /\ gfn' = "envOnly"
    /\ gunique' = permutationKeys_envOnly(gprefix, gwords)
    /\ gret' = generateWordlist_envOnly(gprefix, gwords)
    /\ UNCHANGED << gprefix, gwords, gghw, gosint, gprev >>
    /\ UNCHANGED << scanVars, seqVars, loadVars, wrVars, permVars, netVars, progVars >>

\* part_001:101-135
GenCall ==
    /\ gpc = "call"
    /\ gpc' = "ret"
    /\ gfn' = "full"
    /\ gunique' = permutationKeys(gprefix, gwords)
    /\ gret' = generateWordlist(gprefix, gwords)
    /\ UNCHANGED << gprefix, gwords, gghw, gosint, gprev >>
    /\ UNCHANGED << scanVars, seqVars, loadVars, wrVars, permVars, netVars, progVars >>

\* part_003:305-332 : the permutation loops of the feed revision
GenPermute_feeds ==
    /\ gpc = "call"
    /\ gpc' = "feeds"
    /\ gfn' = "feeds"
    /\ gunique' = permutationKeys(gprefix, gwords)
    /\ UNCHANGED << gprefix, gwords, gret, gghw, gosint, gprev >>
    /\ UNCHANGED << scanVars, seqVars, loadVars, wrVars, permVars, netVars, progVars >>

\* what fetchFromGrayHatWarfare can return, and what fetchFromOsintSh can:
\* the keys of its map in any order
GhwReturns == { fetchFromGrayHatWarfare(a) : a \in GhwAnswers }
OsintReturns == UNION { Perms(fetchFromOsintSh(a)) : a \in OsintAnswers }

\* faulty variant: the names of the second feed are not added
GenFeeds_dropOsint ==
    /\ gpc = "feeds"
    /\ \E ghw \in GhwReturns, osint \in OsintReturns :
          /\ gghw' = ghw
          /\ gosint' = osint
          /\ gunique' = gunique \cup Range(ghw)
          /\ gret' = collect(gunique \cup Range(ghw))
    /\ gpc' = "ret"
    /\ UNCHANGED << gfn, gprefix, gwords, gprev >>
    /\ UNCHANGED << scanVars, seqVars, loadVars, wrVars, permVars, netVars, progVars >>

\* part_003:334-346 : both feeds are queried, their names are added and the
\* map is turned into the returned list
GenFeeds ==
    /\ gpc = "feeds"
    /\ \E ghw \in GhwReturns, osint \in OsintReturns :
          /\ gghw' = ghw
          /\ gosint' = osint
          /\ gunique' = gunique \cup Range(ghw) \cup Range(osint)
          /\ gret' = collect(gunique \cup Range(ghw) \cup Range(osint))
    /\ gpc' = "ret"
    /\ UNCHANGED << gfn, gprefix, gwords, gprev >>
    /\ UNCHANGED << scanVars, seqVars, loadVars, wrVars, permVars, netVars, progVars >>

\* the caller calls generateWordlist once more with the same arguments
\* (any revision); what the first call returned is remembered
GenAgain ==
    /\ gpc = "ret"
    /\ gprev = << >>
    /\ gprev' = << [ fn |-> gfn, prefix |-> gprefix, words |-> gwords,
                     ret |-> BagToSet(gret) ] >>
    /\ gpc' = "call"
    /\ gfn' = "none"
    /\ gunique' = {}
    /\ gret' = EmptyBag
    /\ gghw' = << >>
    /\ gosint' = << >>
    /\ UNCHANGED << gprefix, gwords >>
    /\ UNCHANGED << scanVars, seqVars, loadVars, wrVars, permVars, netVars, progVars >>

GenNext == GenCall_envOnly \/ GenCall \/ GenPermute_feeds \/ GenFeeds \/ GenAgain

GenSpec == GenInit /\ [][GenNext]_vars


(* ======================================================================= *)
(* The concurrent scanner (part_003: main and worker)                      *)
(* ======================================================================= *)

Workers == 1..MaxConc

NoBucket == ""
NoResult == [ exists |-> FALSE, code |-> -1, url |-> "" ]

\* values of the -s and -e flags that are tried: no filter, include 200,
\* exclude 403 (the flag also holds a piece that is no number), and include
\* 403 with 403 excluded as well
FilterFlags == { << 0, "" >>, << 200, "" >>, << 0, "x, 403" >>, << 403, " 403" >> }

\* the state when main has parsed its flags (part_003:405), with a target, a
\* custom word list file and every combination of the other flags
Init ==
    /\ GenIdle
    /\ SeqIdle
    /\ LoadIdle
    /\ WrIdle
    /\ PermIdle
    /\ NetIdle
    /\ ProgIdle
    /\ target \in { "", "acme" }
    /\ concurrency \in 0..MaxConc
    /\ rateLimit \in { 0, 1 }
    /\ \E ff \in FilterFlags : statusFilter = ff[1] /\ exclude = ff[2]
    /\ outputPath \in { "", "hits.txt" }
    /\ excludeStatus = {}
    /\ words = << >>
    /\ wordlist = << >>
    /\ outFile = "nil"
    /\ ticker = FALSE
    /\ mainpc = "parseExclude"
    /\ spawned = 0
    /\ sent = 0
    /\ wg = 0
    /\ doneReport = -1
    /\ jobs = << >>
    /\ jobsClosed = FALSE
    /\ token = 0
    /\ wpc = [ w \in Workers |-> "unborn" ]
    /\ wbucket = [ w \in Workers |-> NoBucket ]
    /\ wres = [ w \in Workers |-> NoResult ]
    /\ totalChecks = 0
    /\ console = EmptyBag
    /\ fileLines = EmptyBag
    /\ probes = << >>
    /\ results = << >>
    /\ writeFailed = {}
    /\ clock = 0
    /\ starts = << >>

(* ---------------- main ---------------- *)

\* part_003:413
MainParseExclude ==
    /\ mainpc = "parseExclude"
    /\ excludeStatus' = parseExclude(excludeStatus, exclude)
    /\ mainpc' = "checkTarget"
    /\ UNCHANGED << words, wordlist, outFile, ticker, spawned, sent, wg, doneReport >>
    /\ UNCHANGED << genVars, seqVars, loadVars, wrVars, permVars, netVars, progVars, timeVars, flagVars, chanVars, workerVars, outVars, obsVars >>

\* faulty variant: main goes on without a target
MainCheckTarget_noCheck ==
    /\ mainpc = "checkTarget"
    /\ mainpc' = "loadWords"
    /\ UNCHANGED << excludeStatus, words, wordlist, outFile, ticker, spawned, sent,
                    wg, doneReport >>
    /\ UNCHANGED << genVars, seqVars, loadVars, wrVars, permVars, netVars, progVars, timeVars, flagVars, chanVars, workerVars, outVars, obsVars >>

\* part_003:415-418
MainCheckTarget ==
    /\ mainpc = "checkTarget"
    /\ mainpc' = IF target = "" THEN "exit1" ELSE "loadWords"
    /\ UNCHANGED << excludeStatus, words, wordlist, outFile, ticker, spawned, sent,
                    wg, doneReport >>
    /\ UNCHANGED << genVars, seqVars, loadVars, wrVars, permVars, netVars, progVars, timeVars, flagVars, chanVars, workerVars, outVars, obsVars >>

\* part_003:420-431 with -w naming a file: either the file cannot be read
\* (exit 1) or its non-blank lines are the words; the file tried here has
\* none, which keeps the candidate set small
MainLoadWords ==
    /\ mainpc = "loadWords"
    /\ \E readErr \in BOOLEAN :
          IF readErr
          THEN mainpc' = "exit1" /\ words' = words
          ELSE mainpc' = "generate" /\ words' = << >>
    /\ UNCHANGED << excludeStatus, wordlist, outFile, ticker, spawned, sent, wg,
                    doneReport >>
    /\ UNCHANGED << genVars, seqVars, loadVars, wrVars, permVars, netVars, progVars, timeVars, flagVars, chanVars, workerVars, outVars, obsVars >>

\* part_003:433 : generateWordlist, which queries both feeds; the list comes
\* back in the order of a map iteration, that is in any order
MainGenerate ==
    /\ mainpc = "generate"
    /\ \E ghw \in GhwReturns, osint \in OsintReturns :
          \E order \in Perms(BagToSet(generateWordlist_feeds(target, words,
                                  ghw, Range(osint)))) :
              /\ wordlist' = order
              /\ probes' = [ b \in Range(order) |-> 0 ]
              /\ results' = [ b \in Range(order) |-> << >> ]
    /\ mainpc' = "createOut"
    /\ UNCHANGED writeFailed
    /\ UNCHANGED << excludeStatus, words, outFile, ticker, spawned, sent, wg, doneReport >>
    /\ UNCHANGED << genVars, seqVars, loadVars, wrVars, permVars, netVars, progVars, timeVars, flagVars, chanVars, workerVars, outVars >>

\* part_003:437-445
MainCreateOut ==
    /\ mainpc = "createOut"
    /\ IF outputPath = ""
       THEN mainpc' = "ticker" /\ outFile' = outFile
       ELSE \E createErr \in BOOLEAN :
              IF createErr
              THEN mainpc' = "exit1" /\ outFile' = outFile
              ELSE mainpc' = "ticker" /\ outFile' = "open"
    /\ UNCHANGED << excludeStatus, words, wordlist, ticker, spawned, sent, wg, doneReport >>
    /\ UNCHANGED << genVars, seqVars, loadVars, wrVars, permVars, netVars, progVars, timeVars, flagVars, chanVars, workerVars, outVars, obsVars >>

\* part_003:447-452
MainTicker ==
    /\ mainpc = "ticker"
    /\ ticker' = (rateLimit > 0)
    /\ mainpc' = "spawn"
    /\ UNCHANGED << excludeStatus, words, wordlist, outFile, spawned, sent, wg, doneReport >>
    /\ UNCHANGED << genVars, seqVars, loadVars, wrVars, permVars, netVars, progVars, timeVars, flagVars, chanVars, workerVars, outVars, obsVars >>

\* faulty variant: the loop runs once more than `concurrency` times
MainSpawn_extra ==
    /\ mainpc = "spawn"
    /\ spawned <= concurrency
    /\ spawned < MaxConc
    /\ wg' = wg + 1
    /\ wpc' = [ wpc EXCEPT ![spawned + 1] = "recv" ]
    /\ spawned' = spawned + 1
    /\ UNCHANGED << excludeStatus, words, wordlist, outFile, ticker, mainpc, sent,
                    doneReport >>
    /\ UNCHANGED << wbucket, wres >>
    /\ UNCHANGED << genVars, seqVars, loadVars, wrVars, permVars, netVars, progVars, timeVars, flagVars, chanVars, outVars, obsVars >>

\* part_003:455-458, one iteration
MainSpawn ==
    /\ mainpc = "spawn"
    /\ spawned < concurrency
    /\ wg' = wg + 1
    /\ wpc' = [ wpc EXCEPT ![spawned + 1] = "recv" ]
    /\ spawned' = spawned + 1
    /\ UNCHANGED << excludeStatus, words, wordlist, outFile, ticker, mainpc, sent,
                    doneReport >>
    /\ UNCHANGED << wbucket, wres >>
    /\ UNCHANGED << genVars, seqVars, loadVars, wrVars, permVars, netVars, progVars, timeVars, flagVars, chanVars, outVars, obsVars >>

\* part_003:455, the loop condition fails
MainSpawnDone ==
    /\ mainpc = "spawn"
    /\ spawned >= concurrency
    /\ mainpc' = "send"
    /\ UNCHANGED << excludeStatus, words, wordlist, outFile, ticker, spawned, sent,
                    wg, doneReport >>
    /\ UNCHANGED << genVars, seqVars, loadVars, wrVars, permVars, netVars, progVars, timeVars, flagVars, chanVars, workerVars, outVars, obsVars >>

\* faulty variant: the queue holds one candidate more than its capacity
MainSend_roomy ==
    /\ mainpc = "send"
    /\ sent < Len(wordlist)
    /\ Len(jobs) <= concurrency
    /\ jobs' = Append(jobs, wordlist[sent + 1])
    /\ sent' = sent + 1
    /\ UNCHANGED << excludeStatus, words, wordlist, outFile, ticker, mainpc, spawned,
                    wg, doneReport >>
    /\ UNCHANGED << jobsClosed, token >>
    /\ UNCHANGED << genVars, seqVars, loadVars, wrVars, permVars, netVars, progVars, timeVars, flagVars, workerVars, outVars, obsVars >>

\* part_003:460-462 : `jobs <- bucket` blocks while the buffer (capacity
\* `concurrency`) is full
MainSend ==
    /\ mainpc = "send"
    /\ sent < Len(wordlist)
    /\ Len(jobs) < concurrency
    /\ jobs' = Append(jobs, wordlist[sent + 1])
    /\ sent' = sent + 1
    /\ UNCHANGED << excludeStatus, words, wordlist, outFile, ticker, mainpc, spawned,
                    wg, doneReport >>
    /\ UNCHANGED << jobsClosed, token >>
    /\ UNCHANGED << genVars, seqVars, loadVars, wrVars, permVars, netVars, progVars, timeVars, flagVars, workerVars, outVars, obsVars >>

\* faulty variant: main goes on to wait without closing the queue
MainClose_noClose ==
    /\ mainpc = "send"
    /\ sent = Len(wordlist)
    /\ mainpc' = "wait"
    /\ UNCHANGED << excludeStatus, words, wordlist, outFile, ticker, spawned, sent,
                    wg, doneReport >>
    /\ UNCHANGED << jobs, jobsClosed, token >>
    /\ UNCHANGED << genVars, seqVars, loadVars, wrVars, permVars, netVars, progVars, timeVars, flagVars, workerVars, outVars, obsVars >>

\* part_003:463
MainClose ==
    /\ mainpc = "send"
    /\ sent = Len(wordlist)
    /\ jobsClosed' = TRUE
    /\ mainpc' = "wait"
    /\ UNCHANGED << excludeStatus, words, wordlist, outFile, ticker, spawned, sent,
                    wg, doneReport >>
    /\ UNCHANGED << jobs, token >>
    /\ UNCHANGED << genVars, seqVars, loadVars, wrVars, permVars, netVars, progVars, timeVars, flagVars, workerVars, outVars, obsVars >>

\* part_003:465-466
MainWait ==
    /\ mainpc = "wait"
    /\ wg = 0
    /\ doneReport' = totalChecks
    /\ mainpc' = "done"
    /\ UNCHANGED << excludeStatus, words, wordlist, outFile, ticker, spawned, sent, wg >>
    /\ UNCHANGED << genVars, seqVars, loadVars, wrVars, permVars, netVars, progVars, timeVars, flagVars, chanVars, workerVars, outVars, obsVars >>

(* ---------------- the ticker ---------------- *)

\* faulty variant: the ticker's channel keeps a second tick
Tick_pile ==
    /\ ticker
    /\ mainpc \notin { "done", "exit1" }
    /\ token < 2
    /\ token' = token + 1
    /\ UNCHANGED << jobs, jobsClosed >>
    /\ UNCHANGED << genVars, seqVars, loadVars, wrVars, permVars, netVars, progVars, timeVars, flagVars, mainVars, workerVars, outVars, obsVars >>

\* the runtime's ticker sends on a channel of capacity 1 and drops the tick
\* when the channel is full
Tick ==
    /\ ticker
    /\ mainpc \notin { "done", "exit1" }
    /\ token = 0
    /\ token' = 1
    /\ UNCHANGED << jobs, jobsClosed >>
    /\ UNCHANGED << genVars, seqVars, loadVars, wrVars, permVars, netVars, progVars, timeVars, flagVars, mainVars, workerVars, outVars, obsVars >>

(* ---------------- worker ---------------- *)

\* faulty variant: the received candidate stays in the queue
WorkerRecv_peek(w) ==
    /\ wpc[w] = "recv"
    /\ Len(jobs) > 0
    /\ wbucket' = [ wbucket EXCEPT ![w] = Head(jobs) ]
    /\ jobs' = jobs
    /\ wpc' = [ wpc EXCEPT ![w] = IF ticker THEN "rate" ELSE "probe" ]
    /\ UNCHANGED << jobsClosed, token, wres >>
    /\ UNCHANGED << genVars, seqVars, loadVars, wrVars, permVars, netVars, progVars, timeVars, flagVars, mainVars, outVars, obsVars >>

\* part_003:354, `for bucket := range jobs` receives
WorkerRecv(w) ==
    /\ wpc[w] = "recv"
    /\ Len(jobs) > 0
    /\ wbucket' = [ wbucket EXCEPT ![w] = Head(jobs) ]
    /\ jobs' = Tail(jobs)
    /\ wpc' = [ wpc EXCEPT ![w] = IF ticker THEN "rate" ELSE "probe" ]
    /\ UNCHANGED << jobsClosed, token, wres >>
    /\ UNCHANGED << genVars, seqVars, loadVars, wrVars, permVars, netVars, progVars, timeVars, flagVars, mainVars, outVars, obsVars >>

\* faulty variant: the worker leaves when it finds the queue empty
WorkerExit_empty(w) ==
    /\ wpc[w] = "recv"
    /\ Len(jobs) = 0
    /\ wpc' = [ wpc EXCEPT ![w] = "exited" ]
    /\ wg' = wg - 1
    /\ UNCHANGED << excludeStatus, words, wordlist, outFile, ticker, mainpc, spawned,
                    sent, doneReport >>
    /\ UNCHANGED << wbucket, wres >>
    /\ UNCHANGED << genVars, seqVars, loadVars, wrVars, permVars, netVars, progVars, timeVars, flagVars, chanVars, outVars, obsVars >>

\* part_003:354 and 352, the range ends on a closed, drained channel and the
\* deferred wg.Done runs
WorkerExit(w) ==
    /\ wpc[w] = "recv"
    /\ Len(jobs) = 0
    /\ jobsClosed
    /\ wpc' = [ wpc EXCEPT ![w] = "exited" ]
    /\ wg' = wg - 1
    /\ UNCHANGED << excludeStatus, words, wordlist, outFile, ticker, mainpc, spawned,
                    sent, doneReport >>
    /\ UNCHANGED << wbucket, wres >>
    /\ UNCHANGED << genVars, seqVars, loadVars, wrVars, permVars, netVars, progVars, timeVars, flagVars, chanVars, outVars, obsVars >>

\* part_003:355-357
WorkerRate(w) ==
    /\ wpc[w] = "rate"
    /\ token > 0
    /\ token' = token - 1
    /\ wpc' = [ wpc EXCEPT ![w] = "probe" ]
    /\ starts' = Append(starts, clock)
    /\ UNCHANGED << jobs, jobsClosed, wbucket, wres, clock >>
    /\ UNCHANGED << genVars, seqVars, loadVars, wrVars, permVars, netVars, progVars, flagVars, mainVars, outVars, obsVars >>

\* part_003:359, the GET and its answer
WorkerProbe(w) ==
    /\ wpc[w] = "probe"
    /\ \E resp \in Responses :
          LET r == checkBucket(wbucket[w], resp)
          IN  /\ wres' = [ wres EXCEPT ![w] = r ]
              /\ results' = [ results EXCEPT ![wbucket[w]] =
                                 Append(@, [ exists |-> r.exists, code |-> r.code,
                                             url |-> r.url, err |-> resp.err ]) ]
    /\ probes' = [ probes EXCEPT ![wbucket[w]] = @ + 1 ]
    /\ wpc' = [ wpc EXCEPT ![w] = "count" ]
    /\ UNCHANGED << wbucket, writeFailed >>
    /\ UNCHANGED << genVars, seqVars, loadVars, wrVars, permVars, netVars, progVars, timeVars, flagVars, mainVars, chanVars, outVars >>

\* faulty variant: only a probe that found a bucket is counted
WorkerCount_ifFound(w) ==
    /\ wpc[w] = "count"
    /\ totalChecks' = IF wres[w].exists THEN totalChecks + 1 ELSE totalChecks
    /\ wpc' = [ wpc EXCEPT ![w] = "report" ]
    /\ UNCHANGED << console, fileLines, wbucket, wres >>
    /\ UNCHANGED << genVars, seqVars, loadVars, wrVars, permVars, netVars, progVars, timeVars, flagVars, mainVars, chanVars, obsVars >>

\* part_003:360-362 : the atomic increment, then the progress line (it ends
\* in no newline, is overwritten by the next print and is not a result line,
\* so it is not kept)
WorkerCount(w) ==
    /\ wpc[w] = "count"
    /\ totalChecks' = totalChecks + 1
    /\ wpc' = [ wpc EXCEPT ![w] = "report" ]
    /\ UNCHANGED << console, fileLines, wbucket, wres >>
    /\ UNCHANGED << genVars, seqVars, loadVars, wrVars, permVars, netVars, progVars, timeVars, flagVars, mainVars, chanVars, obsVars >>

\* part_003:364-384 : the three filters, then the line goes to the console
WorkerReport(w) ==
    /\ wpc[w] = "report"
    /\ IF passesFilters(wres[w].exists, wres[w].code, statusFilter, excludeStatus)
       THEN /\ console' = console (+) SetToBag({ foundLine(wres[w].url, wres[w].code) })
            /\ wpc' = [ wpc EXCEPT ![w] = IF outFile # "nil" THEN "file" ELSE "recv" ]
       ELSE /\ console' = console
            /\ wpc' = [ wpc EXCEPT ![w] = "recv" ]
    /\ UNCHANGED << totalChecks, fileLines, wbucket, wres >>
    /\ UNCHANGED << genVars, seqVars, loadVars, wrVars, permVars, netVars, progVars, timeVars, flagVars, mainVars, chanVars, obsVars >>

\* faulty variant: the line is not handed to the file
WorkerFile_skip(w) ==
    /\ wpc[w] = "file"
    /\ wpc' = [ wpc EXCEPT ![w] = "recv" ]
    /\ UNCHANGED << totalChecks, console, fileLines, wbucket, wres, probes, results,
                    writeFailed >>
    /\ UNCHANGED << genVars, seqVars, loadVars, wrVars, permVars, netVars, progVars, timeVars, flagVars, mainVars, chanVars >>

\* part_003:386-388 : WriteString either writes the line or fails (disk
\* full, file gone); its error is not looked at
WorkerFile(w) ==
    /\ wpc[w] = "file"
    /\ \E writeErr \in BOOLEAN :
          IF writeErr
          THEN /\ fileLines' = fileLines
               /\ writeFailed' = writeFailed \cup { wbucket[w] }
          ELSE /\ fileLines' = fileLines (+) SetToBag({ foundLine(wres[w].url, wres[w].code) })
               /\ writeFailed' = writeFailed
    /\ wpc' = [ wpc EXCEPT ![w] = "recv" ]
    /\ UNCHANGED << totalChecks, console, wbucket, wres, probes, results >>
    /\ UNCHANGED << genVars, seqVars, loadVars, wrVars, permVars, netVars, progVars, timeVars, flagVars, mainVars, chanVars >>

Next ==
    \/ MainParseExclude \/ MainCheckTarget \/ MainLoadWords \/ MainGenerate
    \/ MainCreateOut \/ MainTicker \/ MainSpawn \/ MainSpawnDone
    \/ MainSend \/ MainClose \/ MainWait
    \/ Tick
    \/ \E w \in Workers :
          \/ WorkerRecv(w) \/ WorkerExit(w) \/ WorkerRate(w) \/ WorkerProbe(w)
          \/ WorkerCount(w) \/ WorkerReport(w) \/ WorkerFile(w)

Spec == Init /\ [][Next]_vars

\* the steps of main, of one worker
MainStep ==
    \/ MainParseExclude \/ MainCheckTarget \/ MainLoadWords \/ MainGenerate
    \/ MainCreateOut \/ MainTicker \/ MainSpawn \/ MainSpawnDone
    \/ MainSend \/ MainClose \/ MainWait

WorkerStep(w) ==
    \/ WorkerRecv(w) \/ WorkerExit(w) \/ WorkerRate(w) \/ WorkerProbe(w)
    \/ WorkerCount(w) \/ WorkerReport(w) \/ WorkerFile(w)

\* the Go scheduler runs every goroutine that can run, every GET returns
\* (the client has a 6 s timeout) and the ticker keeps ticking
FairSpec ==
    /\ Init
    /\ [][Next]_vars
    /\ WF_vars(MainStep)
    /\ WF_vars(Tick)
    /\ \A w \in Workers : WF_vars(WorkerStep(w))


(* ======================================================================= *)
(* The rate-limited scan against the clock of its ticker                   *)
(* ======================================================================= *)

\* how long the scan is followed, in half tick intervals
MaxClock == 9

\* names a GrayHatWarfare answer holds
RateFeed == << "acme-backup", "acme-dev", "acme-logs" >>

\* two of the orders in which generateWordlist returns its four candidates
RateOrders ==
    { q \in Perms(BagToSet(generateWordlist_feeds("acme", << >>, RateFeed, {}))) :
        q[1] = "acme" /\ q[2] = RateFeed[1] }

\* the state when generateWordlist has returned (part_003:433) in a run with
\* -t acme -r 1 -o hits.txt, a word file without words and no filter,
\* GrayHatWarfare having answered RateFeed and osint.sh nothing
RateInit ==
    /\ GenIdle
    /\ SeqIdle
    /\ LoadIdle
    /\ WrIdle
    /\ PermIdle
    /\ NetIdle
    /\ ProgIdle
    /\ target = "acme"
    /\ rateLimit = 1
    /\ concurrency = rateLimit
    /\ statusFilter = 0
    /\ exclude = ""
    /\ outputPath = "hits.txt"
    /\ excludeStatus = parseExclude({}, exclude)
    /\ words = << >>
    /\ wordlist \in RateOrders
    /\ outFile = "nil"
    /\ ticker = FALSE
    /\ mainpc = "createOut"
    /\ spawned = 0
    /\ sent = 0
    /\ wg = 0
    /\ doneReport = -1
    /\ jobs = << >>
    /\ jobsClosed = FALSE
    /\ token = 0
    /\ wpc = [ w \in Workers |-> "unborn" ]
    /\ wbucket = [ w \in Workers |-> NoBucket ]
    /\ wres = [ w \in Workers |-> NoResult ]
    /\ totalChecks = 0
    /\ console = EmptyBag
    /\ fileLines = EmptyBag
    /\ probes = [ b \in Range(wordlist) |-> 0 ]
    /\ results = [ b \in Range(wordlist) |-> << >> ]
    /\ writeFailed = {}
    /\ clock = 0
    /\ starts = << >>

\* half of the ticker's interval (time.Second / rateLimit, part_003:449)
\* passes and no tick is due at its end
HalfInterval ==
    /\ ticker
    /\ mainpc \notin { "done", "exit1" }
    /\ clock < MaxClock
    /\ clock % 2 = 0
    /\ clock' = clock + 1
    /\ UNCHANGED << starts, chanVars >>
    /\ UNCHANGED << genVars, seqVars, loadVars, wrVars, permVars, netVars, progVars, flagVars, mainVars, workerVars, outVars, obsVars >>

\* the other half passes and the ticker ticks: the runtime sends on the
\* channel of capacity 1 without blocking, so the tick is dropped when the
\* last one has not been received
TimedTick ==
    /\ ticker
    /\ mainpc \notin { "done", "exit1" }
    /\ clock < MaxClock
    /\ clock % 2 = 1
    /\ clock' = clock + 1
    /\ token' = 1
    /\ UNCHANGED << starts, jobs, jobsClosed >>
    /\ UNCHANGED << genVars, seqVars, loadVars, wrVars, permVars, netVars, progVars, flagVars, mainVars, workerVars, outVars, obsVars >>

RateNext ==
    \/ MainCreateOut \/ MainTicker \/ MainSpawn \/ MainSpawnDone
    \/ MainSend \/ MainClose \/ MainWait
    \/ HalfInterval \/ TimedTick
    \/ \E w \in Workers :
          \/ WorkerRecv(w) \/ WorkerExit(w) \/ WorkerRate(w) \/ WorkerProbe(w)
          \/ WorkerCount(w) \/ WorkerReport(w) \/ WorkerFile(w)

RateSpec == RateInit /\ [][RateNext]_vars


(* ======================================================================= *)
(* main from its flags to the scan: loading the word list                  *)
(* ======================================================================= *)

\* "first" is main.go:331-364 with initWordlist of main.go:58-87 (the later
\* revisions of main.go that have initWordlist agree), "v131" is
\* part_003:394-466 with loadCustomWordlist and loadEmbeddedWordlist
LoadRevisions == { "first", "v131" }

\* contents of the file named by -w: empty, blank lines only, one word, and
\* two words among blank lines
FileData == { "", "\n", " \r\n\t\n", "data\n", "\n b \r\n\ndata" }

\* contents of the embedded common_bucket_prefixes.txt, which the sources do
\* not hold: a list of one word, and an empty file
EmbeddedData == { "data\n", "" }

LoadInit ==
    /\ GenIdle
    /\ ScanIdle
    /\ SeqIdle
    /\ WrIdle
    /\ PermIdle
    /\ NetIdle
    /\ ProgIdle
    /\ lrev \in LoadRevisions
    /\ lpc = "checkTarget"
    /\ ltarget \in { "", "acme" }
    /\ lpath \in { "", "w.txt" }
    /\ lfile \in { [ err |-> TRUE, data |-> "" ] }
                 \cup { [ err |-> FALSE, data |-> d ] : d \in FileData }
    /\ lembedded \in EmbeddedData
    /\ lout \in { "", "hits.txt" }
    /\ globalWordlist = << >>
    /\ lwordlist = {}
    /\ lscanned = 0
    /\ lconsole = << >>

\* main.go:339-342, part_003:415-418
LoadCheckTarget ==
    /\ lpc = "checkTarget"
    /\ IF ltarget = ""
       THEN /\ lpc' = "exitUsage"
            /\ lconsole' = Append(lconsole, IF lrev = "first"
                                            THEN "Usage: s3-checker -t <target>"
                                            ELSE "  s3-checker -t <target> [options]")
       ELSE /\ lpc' = "loadWords"
            /\ lconsole' = lconsole
    /\ UNCHANGED << lrev, ltarget, lpath, lfile, lembedded, lout, globalWordlist,
                    lwordlist, lscanned >>
    /\ UNCHANGED << genVars, scanVars, seqVars, wrVars, permVars, netVars, progVars >>

\* main.go:344-347 with initWordlist (58-87): the file's content when the
\* file can be read and is not empty, else the embedded content; no word at
\* all is an error, which main prints before it returns
MainInitWordlist ==
    /\ lrev = "first"
    /\ lpc = "loadWords"
    /\ LET content == IF lpath # "" /\ ~lfile.err /\ Len(lfile.data) > 0
                      THEN lfile.data
                      ELSE lembedded
           loaded == globalWordlist \o scanWords(content)
       IN  /\ globalWordlist' = loaded
           /\ IF Len(loaded) = 0
              THEN /\ lconsole' = Append(lconsole, "Error: wordlist empty")
                   /\ lpc' = "returnEmpty"
              ELSE /\ lconsole' = lconsole
                   /\ lpc' = "generate"
    /\ UNCHANGED << lrev, ltarget, lpath, lfile, lembedded, lout, lwordlist, lscanned >>
    /\ UNCHANGED << genVars, scanVars, seqVars, wrVars, permVars, netVars, progVars >>

\* part_003:420-431 with loadCustomWordlist (287-303) and
\* loadEmbeddedWordlist (275-285): a file that cannot be opened ends the run,
\* any list of words, the empty one too, goes on to generateWordlist
MainLoadLists ==
    /\ lrev = "v131"
    /\ lpc = "loadWords"
    /\ IF lpath # ""
       THEN IF lfile.err
            THEN /\ lconsole' = Append(lconsole, "Error loading wordlist: open")
                 /\ lpc' = "exitRead"
                 /\ globalWordlist' = globalWordlist
            ELSE /\ lconsole' = lconsole
                 /\ lpc' = "generate"
                 /\ globalWordlist' = scanWords(lfile.data)
       ELSE /\ lconsole' = lconsole
            /\ lpc' = "generate"
            /\ globalWordlist' = scanWords(lembedded)
    /\ UNCHANGED << lrev, ltarget, lpath, lfile, lembedded, lout, lwordlist, lscanned >>
    /\ UNCHANGED << genVars, scanVars, seqVars, wrVars, permVars, netVars, progVars >>

\* main.go:349 and part_003:433 (where the two feeds are asked as well)
LoadGenerate ==
    /\ lpc = "generate"
    /\ IF lrev = "first"
       THEN lwordlist' = BagToSet(generateWordlist_envOnly(ltarget, globalWordlist))
       ELSE \E ghw \in GhwReturns, osint \in OsintReturns :
               lwordlist' = BagToSet(generateWordlist_feeds(ltarget, globalWordlist,
                                ghw, Range(osint)))
    /\ lpc' = "createOut"
    /\ UNCHANGED << lrev, ltarget, lpath, lfile, lembedded, lout, globalWordlist,
                    lscanned, lconsole >>
    /\ UNCHANGED << genVars, scanVars, seqVars, wrVars, permVars, netVars, progVars >>

\* main.go:352-361 (prints and returns when os.Create fails) and
\* part_003:437-445 (prints and exits with status 1)
LoadCreateOut ==
    /\ lpc = "createOut"
    /\ IF lout = ""
       THEN lpc' = "scan" /\ lconsole' = lconsole
       ELSE \E createErr \in BOOLEAN :
               IF createErr
               THEN /\ lpc' = "failCreate"
                    /\ lconsole' = Append(lconsole, IF lrev = "first"
                                                    THEN "Output error: create"
                                                    ELSE "Error creating output file: create")
               ELSE lpc' = "scan" /\ lconsole' = lconsole
    /\ UNCHANGED << lrev, ltarget, lpath, lfile, lembedded, lout, globalWordlist,
                    lwordlist, lscanned >>
    /\ UNCHANGED << genVars, scanVars, seqVars, wrVars, permVars, netVars, progVars >>

\* the scan, one candidate per step: scanBuckets (main.go:266-327) ranges
\* over the list, in part_003:460-462 every candidate is sent to a worker
LoadScan ==
    /\ lpc = "scan"
    /\ lscanned < Cardinality(lwordlist)
    /\ lscanned' = lscanned + 1
    /\ UNCHANGED << lrev, lpc, ltarget, lpath, lfile, lembedded, lout, globalWordlist,
                    lwordlist, lconsole >>
    /\ UNCHANGED << genVars, scanVars, seqVars, wrVars, permVars, netVars, progVars >>

\* main.go:363-364, part_003:464-466
LoadDone ==
    /\ lpc = "scan"
    /\ lscanned = Cardinality(lwordlist)
    /\ lpc' = "done"
    /\ UNCHANGED << lrev, ltarget, lpath, lfile, lembedded, lout, globalWordlist,
                    lwordlist, lscanned, lconsole >>
    /\ UNCHANGED << genVars, scanVars, seqVars, wrVars, permVars, netVars, progVars >>

LoadNext ==
    \/ LoadCheckTarget \/ MainInitWordlist \/ MainLoadLists \/ LoadGenerate
    \/ LoadCreateOut \/ LoadScan \/ LoadDone

LoadSpec == LoadInit /\ [][LoadNext]_vars


(* ======================================================================= *)
(* The workers' output, one Write call in several steps                    *)
(* ======================================================================= *)

\* in how many pieces one Write call hands its bytes to the descriptor
MaxPieces == 2
MaxWait == 12

\* os.Stdout and outFile
Destinations == { "stdout", "file" }

\* the three writes of one loop iteration of the worker: the progress line
\* (part_003:362, part_001:151), the result line (part_003:383,
\* part_001:163) and the line for the file (part_003:386, part_001:166)
WriteStages == { "progress", "result", "file" }

Dest(stage) == IF stage = "file" THEN "file" ELSE "stdout"

WrStart == [ stage |-> "recv", pos |-> 0, job |-> 0, accepted |-> FALSE ]

\* the state when main has started the workers (part_003:455-458) and sends
\* MaxScan candidates, with or without -o
WrInit ==
    /\ GenIdle
    /\ ScanIdle
    /\ SeqIdle
    /\ LoadIdle
    /\ PermIdle
    /\ NetIdle
    /\ ProgIdle
    /\ wrpc = [ w \in Workers |-> WrStart ]
    /\ wrjobs = MaxScan
    /\ wrfile \in BOOLEAN
    /\ wrlock = [ d \in Destinations |-> 0 ]
    /\ wrbusy = [ d \in Destinations |-> {} ]
    /\ wrstream = [ d \in Destinations |-> << >> ]

\* part_003:354-372 : a candidate is received and probed (which writes
\* nothing); it is accepted when it exists and passes the filters; the
\* worker is at its first Printf
WrRecv(w) ==
    /\ wrpc[w].stage = "recv"
    /\ wrjobs > 0
    /\ wrjobs' = wrjobs - 1
    /\ \E acc \in BOOLEAN :
          wrpc' = [ wrpc EXCEPT ![w] = [ stage |-> "progress", pos |-> 0,
                                         job |-> wrjobs, accepted |-> acc ] ]
    /\ UNCHANGED << wrfile, wrlock, wrbusy, wrstream >>
    /\ UNCHANGED << genVars, scanVars, seqVars, loadVars, permVars, netVars, progVars >>

\* part_003:354 : the range over the closed, drained channel ends
WrExit(w) ==
    /\ wrpc[w].stage = "recv"
    /\ wrjobs = 0
    /\ wrpc' = [ wrpc EXCEPT ![w].stage = "exited" ]
    /\ UNCHANGED << wrjobs, wrfile, wrlock, wrbusy, wrstream >>
    /\ UNCHANGED << genVars, scanVars, seqVars, loadVars, permVars, netVars, progVars >>

\* faulty variant: Write does not wait for the descriptor's write lock
WrLock_noWait(w) ==
    /\ wrpc[w].stage \in WriteStages
    /\ wrpc[w].pos = 0
    /\ wrlock' = [ wrlock EXCEPT ![Dest(wrpc[w].stage)] = w ]
    /\ wrpc' = [ wrpc EXCEPT ![w].pos = 1 ]
    /\ UNCHANGED << wrjobs, wrfile, wrbusy, wrstream >>
    /\ UNCHANGED << genVars, scanVars, seqVars, loadVars, permVars, netVars, progVars >>

\* fmt.Printf has formatted the whole text into its buffer and calls
\* os.Stdout.Write once; outFile.WriteString calls Write once; (*os.File).Write
\* takes the write lock of the descriptor before it writes
WrLock(w) ==
    /\ wrpc[w].stage \in WriteStages
    /\ wrpc[w].pos = 0
    /\ wrlock[Dest(wrpc[w].stage)] = 0
    /\ wrlock' = [ wrlock EXCEPT ![Dest(wrpc[w].stage)] = w ]
    /\ wrpc' = [ wrpc EXCEPT ![w].pos = 1 ]
    /\ UNCHANGED << wrjobs, wrfile, wrbusy, wrstream >>
    /\ UNCHANGED << genVars, scanVars, seqVars, loadVars, permVars, netVars, progVars >>

\* one write system call of the Write call: the next piece of the text
\* reaches the destination
WrPiece(w) ==
    /\ wrpc[w].stage \in WriteStages
    /\ wrpc[w].pos \in 1..MaxPieces
    /\ LET d == Dest(wrpc[w].stage)
       IN  /\ wrstream' = [ wrstream EXCEPT ![d] =
                              Append(@, [ worker |-> w, stage |-> wrpc[w].stage,
                                          job |-> wrpc[w].job, piece |-> wrpc[w].pos ]) ]
           /\ wrbusy' = [ wrbusy EXCEPT ![d] = @ \cup { w } ]
    /\ wrpc' = [ wrpc EXCEPT ![w].pos = @ + 1 ]
    /\ UNCHANGED << wrjobs, wrfile, wrlock >>
    /\ UNCHANGED << genVars, scanVars, seqVars, loadVars, permVars, netVars, progVars >>

\* the Write call returns and releases the lock; the worker goes on: after
\* the progress line to the filters (part_003:364-372), after the result line
\* to `if outFile != nil` (385), after the file to the next candidate
WrUnlock(w) ==
    /\ wrpc[w].stage \in WriteStages
    /\ wrpc[w].pos = MaxPieces + 1
    /\ LET d == Dest(wrpc[w].stage)
       IN  /\ wrlock' = [ wrlock EXCEPT ![d] = IF @ = w THEN 0 ELSE @ ]
           /\ wrbusy' = [ wrbusy EXCEPT ![d] = @ \ { w } ]
    /\ wrpc' = [ wrpc EXCEPT ![w].pos = 0,
                             ![w].stage =
                                 CASE @ = "progress" -> IF wrpc[w].accepted THEN "result" ELSE "recv"
                                   [] @ = "result" -> IF wrfile THEN "file" ELSE "recv"
                                   [] @ = "file" -> "recv" ]
    /\ UNCHANGED << wrjobs, wrfile, wrstream >>
    /\ UNCHANGED << genVars, scanVars, seqVars, loadVars, permVars, netVars, progVars >>

WrNext ==
    \E w \in Workers :
        \/ WrRecv(w) \/ WrExit(w) \/ WrLock(w) \/ WrPiece(w) \/ WrUnlock(w)

WriteSpec == WrInit /\ [][WrNext]_vars


(* ======================================================================= *)
(* scanBuckets on one candidate, one request or CLI run per step           *)
(* ======================================================================= *)

\* "first" main.go:266-327, "second" main.go:590-629, "plain"
\* part_000:164-178, "override" part_002:521-542, "either" main.go:1234-1256
PermRevisions == { "first", "second", "plain", "override", "either" }

\* one entry of the log of requests: the existence GET, the region HEAD, the
\* listing GET (?list-type=2) and a run of the aws CLI, with the answer
Signal(kind, ans) == [ kind |-> kind, ans |-> ans ]

PermInit ==
    /\ GenIdle
    /\ ScanIdle
    /\ SeqIdle
    /\ LoadIdle
    /\ WrIdle
    /\ NetIdle
    /\ ProgIdle
    /\ prev \in PermRevisions
    /\ paws \in (IF prev = "plain" THEN { FALSE } ELSE BOOLEAN)
    /\ ppc = "exists"
    /\ psig = << >>
    /\ pexists = FALSE
    /\ pcode = 0
    /\ pperm = ""
    /\ pcount = -2
    /\ plook = "none"
    /\ pregion = ""

\* exec.LookPath("aws"), asked only behind `if useAWS` (main.go:147-153,
\* 503-504, 1168-1169, part_002:441-449)
LookPath(useAWS, aws) ==
    IF ~useAWS THEN "none" ELSE IF aws.found THEN "found" ELSE "missing"

\* s3.Exists() (main.go:284, 601): the existence GET; a candidate that does
\* not exist is done with (its line is written in the first revision)
PermExists ==
    /\ ppc = "exists"
    /\ prev \in { "first", "second" }
    /\ \E resp \in Responses :
          LET ex == IF prev = "first" THEN Exists_301(resp) ELSE Exists(resp)
          IN  /\ psig' = Append(psig, Signal("GET", resp))
              /\ pexists' = ex.exists
              /\ pcode' = ex.code
              /\ ppc' = IF ex.exists THEN "region" ELSE "done"
    /\ UNCHANGED << prev, paws, pregion, pperm, pcount, plook >>
    /\ UNCHANGED << genVars, scanVars, seqVars, loadVars, wrVars, netVars, progVars >>

\* b.Check() (part_000:168, part_002:526, main.go:1239): the existence GET,
\* which also gives a first permission; then part_000 writes its line,
\* part_002 goes on to awsPermissionCheck whatever Check said, and
\* main.go:1241-1246 goes on to classifyPermissions when there is a permission
PermCheck ==
    /\ ppc = "exists"
    /\ prev \in { "plain", "override", "either" }
    /\ \E resp \in Responses :
          LET c == Check(resp)
          IN  /\ psig' = Append(psig, Signal("GET", resp))
              /\ pexists' = (c.perm # "")
              /\ pcode' = c.code
              /\ pperm' = c.perm
              /\ ppc' = CASE prev = "plain" -> "done"
                          [] prev = "override" -> "awsCheck"
                          [] prev = "either" -> IF c.perm = "" THEN "done" ELSE "classify"
    /\ UNCHANGED << prev, paws, pregion, pcount, plook >>
    /\ UNCHANGED << genVars, scanVars, seqVars, loadVars, wrVars, netVars, progVars >>

\* s3.GetRegion() (main.go:298, 606): the HEAD request
PermRegion ==
    /\ ppc = "region"
    /\ \E head \in Heads :
          /\ psig' = Append(psig, Signal("HEAD", head))
          /\ pregion' = IF prev = "first" THEN GetRegion(head) ELSE GetRegion_second(head)
    /\ ppc' = IF prev = "first" THEN "acl" ELSE "classify"
    /\ UNCHANGED << prev, paws, pexists, pcode, pperm, pcount, plook >>
    /\ UNCHANGED << genVars, scanVars, seqVars, loadVars, wrVars, netVars, progVars >>

\* checkACL(word) (main.go:299 with 143-177): with -aws and the binary on
\* the PATH, `aws s3api get-bucket-acl` runs
PermCheckACL ==
    /\ ppc = "acl"
    /\ \E aws \in AwsRuns :
          /\ psig' = IF paws /\ aws.found THEN Append(psig, Signal("CLI", aws)) ELSE psig
          /\ plook' = LookPath(paws, aws)
    /\ ppc' = "stats"
    /\ UNCHANGED << prev, paws, pregion, pexists, pcode, pperm, pcount >>
    /\ UNCHANGED << genVars, scanVars, seqVars, loadVars, wrVars, netVars, progVars >>

\* getBucketStats(word) (main.go:300 with 181-206) and the choice of the
\* line (302-324): no object counted means PRIVATE, else the line carries the
\* ACL lists and no permission word
PermStats ==
    /\ ppc = "stats"
    /\ \E list \in Listings :
          /\ psig' = Append(psig, Signal("LIST", list))
          /\ pcount' = getBucketStats(list)[1]
          /\ pperm' = IF getBucketStats(list)[1] = 0 THEN "PRIVATE" ELSE ""
    /\ ppc' = "done"
    /\ UNCHANGED << prev, paws, pregion, pexists, pcode, plook >>
    /\ UNCHANGED << genVars, scanVars, seqVars, loadVars, wrVars, netVars, progVars >>

\* classifyPermissions(word) of main.go:492-517 (called at 607): the listing
\* GET, and the CLI only when that did not answer 200; a PUBLIC bucket goes on
\* to getObjectCount
PermClassify ==
    /\ ppc = "classify"
    /\ prev = "second"
    /\ \E list \in Listings, aws \in AwsRuns :
          /\ psig' = IF classifyRunsCLI(list, paws, aws)
                     THEN psig \o << Signal("LIST", list), Signal("CLI", aws) >>
                     ELSE Append(psig, Signal("LIST", list))
          /\ pperm' = classifyPermissions(list, paws, aws)
          /\ ppc' = IF classifyPermissions(list, paws, aws) = "PUBLIC" THEN "count" ELSE "done"
          /\ plook' = IF ~list.err /\ list.status = 200 THEN "none" ELSE LookPath(paws, aws)
    /\ UNCHANGED << prev, paws, pregion, pexists, pcode, pcount >>
    /\ UNCHANGED << genVars, scanVars, seqVars, loadVars, wrVars, netVars, progVars >>

\* classifyPermissions(b.Bucket) of main.go:1153-1185 (called at 1246): the
\* listing GET, then the CLI whenever -aws is set and the binary is found
PermClassify_either ==
    /\ ppc = "classify"
    /\ prev = "either"
    /\ \E list \in Listings, aws \in AwsRuns :
          /\ psig' = IF paws /\ aws.found
                     THEN psig \o << Signal("LIST", list), Signal("CLI", aws) >>
                     ELSE Append(psig, Signal("LIST", list))
          /\ pperm' = classifyPermissions_either(list, paws, aws)
          /\ plook' = LookPath(paws, aws)
    /\ ppc' = "done"
    /\ UNCHANGED << prev, paws, pregion, pexists, pcode, pcount >>
    /\ UNCHANGED << genVars, scanVars, seqVars, loadVars, wrVars, netVars, progVars >>

\* getObjectCount(word) (main.go:610 with 521-541): the listing GET again
PermCount ==
    /\ ppc = "count"
    /\ \E list \in Listings :
          /\ psig' = Append(psig, Signal("LIST", list))
          /\ pcount' = getObjectCount(list)
    /\ ppc' = "done"
    /\ UNCHANGED << prev, paws, pregion, pexists, pcode, pperm, plook >>
    /\ UNCHANGED << genVars, scanVars, seqVars, loadVars, wrVars, netVars, progVars >>

\* awsPermissionCheck(b.Bucket) (part_002:529-532 with 440-472): with -aws
\* and the binary found `aws s3 ls` runs, and an answer replaces the
\* permission Check gave
PermAwsCheck ==
    /\ ppc = "awsCheck"
    /\ \E aws \in AwsRuns :
          /\ psig' = IF paws /\ aws.found THEN Append(psig, Signal("CLI", aws)) ELSE psig
          /\ pperm' = IF awsPermissionCheck(paws, aws) # ""
                      THEN awsPermissionCheck(paws, aws) ELSE pperm
          /\ plook' = LookPath(paws, aws)
    /\ ppc' = "done"
    /\ UNCHANGED << prev, paws, pregion, pexists, pcode, pcount >>
    /\ UNCHANGED << genVars, scanVars, seqVars, loadVars, wrVars, netVars, progVars >>

PermNext ==
    \/ PermExists \/ PermCheck \/ PermRegion \/ PermCheckACL \/ PermStats
    \/ PermClassify \/ PermClassify_either \/ PermCount \/ PermAwsCheck

PermSpec == PermInit /\ [][PermNext]_vars


(* ======================================================================= *)
(* The network calls of one pass and their timeouts, second by second      *)
(* ======================================================================= *)

\* Timeout of the shared client of the concurrent scanner (part_003:52), of
\* scrapeClient (part_003:221), of S3.Client in the first and the second
\* sequential revision (main.go:101, 452), in seconds; http.Get uses
\* http.DefaultClient, whose Timeout is zero: no timeout
clientTimeout == 6
scrapeTimeout == 10
s3Timeout_first == 8
s3Timeout_second == 6
defaultClientTimeout == 0

\* the code followed: generateWordlist of part_003 up to its return (feeds),
\* checkBucket of part_003, and one candidate of scanBuckets in the first and
\* the second sequential revision
NetPrograms == { "aggregate", "checkBucket", "first", "second" }

\* the Timeout of the client that makes the call
TimeoutOf(prog, site) ==
    CASE site = "ghw" -> defaultClientTimeout
      [] site = "osint" -> scrapeTimeout
      [] site = "probe" -> clientTimeout
      [] site \in { "exists", "head" } ->
            (IF prog = "first" THEN s3Timeout_first ELSE s3Timeout_second)
      [] site \in { "stats", "classify", "count" } -> defaultClientTimeout

\* the call that follows, given how the last one ended ("yes": the answer
\* the code goes on with, "no": another answer, "err": Get or Do failed)
NextSite(prog, site, outcome, key, disable) ==
    CASE prog = "aggregate" ->
            (CASE site = "start" -> IF key THEN "ghw"
                                    ELSE IF disable THEN "finished" ELSE "osint"
               [] site = "ghw" -> IF disable THEN "finished" ELSE "osint"
               [] site = "osint" -> "finished")
      [] prog = "checkBucket" ->
            (IF site = "start" THEN "probe" ELSE "finished")
      [] prog = "first" ->
            (CASE site = "start" -> "exists"
               [] site = "exists" -> IF outcome = "yes" THEN "head" ELSE "finished"
               [] site = "head" -> "stats"
               [] site = "stats" -> "finished")
      [] prog = "second" ->
            (CASE site = "start" -> "exists"
               [] site = "exists" -> IF outcome = "yes" THEN "head" ELSE "finished"
               [] site = "head" -> "classify"
               [] site = "classify" -> IF outcome = "yes" THEN "count" ELSE "finished"
               [] site = "count" -> "finished")

NetInit ==
    /\ GenIdle
    /\ ScanIdle
    /\ SeqIdle
    /\ LoadIdle
    /\ WrIdle
    /\ PermIdle
    /\ ProgIdle
    /\ nprog \in NetPrograms
    /\ nkey \in (IF nprog = "aggregate" THEN BOOLEAN ELSE { FALSE })
    /\ ndisable \in (IF nprog = "aggregate" THEN BOOLEAN ELSE { FALSE })
    /\ nsite = "start"
    /\ npc = "ready"
    /\ nsilent = FALSE
    /\ nwait = 0

NetFrame == UNCHANGED << genVars, scanVars, seqVars, loadVars, wrVars, permVars, progVars >>

\* the code reaches its first call (or its end, with no feed to ask)
NetStart ==
    /\ nsite = "start"
    /\ nsite' = NextSite(nprog, "start", "yes", nkey, ndisable)
    /\ UNCHANGED << nprog, nkey, ndisable, npc, nsilent, nwait >>
    /\ NetFrame

\* http.Get / client.Do sends the request; the endpoint is one that answers
\* or one that accepts the connection and never answers
NetSend ==
    /\ nsite \notin { "start", "finished" }
    /\ npc = "ready"
    /\ npc' = "waiting"
    /\ nsilent' \in BOOLEAN
    /\ nwait' = 0
    /\ UNCHANGED << nprog, nkey, ndisable, nsite >>
    /\ NetFrame

\* the answer arrives, or the request fails, before any timeout
NetAnswer ==
    /\ npc = "waiting"
    /\ ~nsilent
    /\ \E outcome \in { "yes", "no", "err" } :
          nsite' = NextSite(nprog, nsite, outcome, nkey, ndisable)
    /\ npc' = "ready"
    /\ nsilent' = FALSE
    /\ nwait' = 0
    /\ UNCHANGED << nprog, nkey, ndisable >>
    /\ NetFrame

\* a second passes while the request waits
NetSecond ==
    /\ npc = "waiting"
    /\ nwait < (IF TimeoutOf(nprog, nsite) > 0 THEN TimeoutOf(nprog, nsite) ELSE MaxWait)
    /\ nwait' = nwait + 1
    /\ UNCHANGED << nprog, nkey, ndisable, nsite, npc, nsilent >>
    /\ NetFrame

\* Client.Timeout runs out: Get / Do returns an error
NetTimeout ==
    /\ npc = "waiting"
    /\ TimeoutOf(nprog, nsite) > 0
    /\ nwait = TimeoutOf(nprog, nsite)
    /\ nsite' = NextSite(nprog, nsite, "err", nkey, ndisable)
    /\ npc' = "ready"
    /\ nsilent' = FALSE
    /\ nwait' = 0
    /\ UNCHANGED << nprog, nkey, ndisable >>
    /\ NetFrame

NetNext == NetStart \/ NetSend \/ NetAnswer \/ NetSecond \/ NetTimeout

\* the goroutine runs, time passes, timers fire and an endpoint that answers
\* does answer
NetSpec ==
    /\ NetInit
    /\ [][NetNext]_vars
    /\ WF_vars(NetStart)
    /\ WF_vars(NetSend)
    /\ WF_vars(NetAnswer)
    /\ WF_vars(NetSecond)
    /\ WF_vars(NetTimeout)


(* ======================================================================= *)
(* The progress counter of the workers, statement by statement             *)
(* ======================================================================= *)

\* part_003:452-462 : 1..MaxConc workers are running and the list holds
\* 1..MaxScan candidates
ProgInit ==
    /\ GenIdle
    /\ ScanIdle
    /\ SeqIdle
    /\ LoadIdle
    /\ WrIdle
    /\ PermIdle
    /\ NetIdle
    /\ pgn \in 1..MaxConc
    /\ pgjobs \in 1..MaxScan
    /\ pgpc = [ w \in 1..pgn |-> "recv" ]
    /\ pgtotal = 0
    /\ pgdone = 0
    /\ pgval = [ w \in 1..pgn |-> 0 ]
    /\ pgout = << >>

ProgFrame == UNCHANGED << genVars, scanVars, seqVars, loadVars, wrVars, permVars, netVars >>

\* part_003:354 : the worker receives a candidate
ProgRecv(w) ==
    /\ pgpc[w] = "recv"
    /\ pgjobs > 0
    /\ pgjobs' = pgjobs - 1
    /\ pgpc' = [ pgpc EXCEPT ![w] = "probe" ]
    /\ UNCHANGED << pgn, pgtotal, pgdone, pgval, pgout >>
    /\ ProgFrame

\* part_003:359 : its checkBucket call returns
ProgProbe(w) ==
    /\ pgpc[w] = "probe"
    /\ pgdone' = pgdone + 1
    /\ pgpc' = [ pgpc EXCEPT ![w] = "add" ]
    /\ UNCHANGED << pgn, pgjobs, pgtotal, pgval, pgout >>
    /\ ProgFrame

\* part_003:360 : atomic.AddUint64(&totalChecks, 1)
ProgAdd(w) ==
    /\ pgpc[w] = "add"
    /\ pgtotal' = pgtotal + 1
    /\ pgpc' = [ pgpc EXCEPT ![w] = "load" ]
    /\ UNCHANGED << pgn, pgjobs, pgdone, pgval, pgout >>
    /\ ProgFrame

\* part_003:362 : the argument atomic.LoadUint64(&totalChecks) is evaluated
ProgLoad(w) ==
    /\ pgpc[w] = "load"
    /\ pgval' = [ pgval EXCEPT ![w] = pgtotal ]
    /\ pgpc' = [ pgpc EXCEPT ![w] = "print" ]
    /\ UNCHANGED << pgn, pgjobs, pgtotal, pgdone, pgout >>
    /\ ProgFrame

\* part_003:362 : fmt.Printf writes the line with the value it was given
ProgPrint(w) ==
    /\ pgpc[w] = "print"
    /\ pgout' = Append(pgout, [ val |-> pgval[w], done |-> pgdone ])
    /\ pgpc' = [ pgpc EXCEPT ![w] = "recv" ]
    /\ UNCHANGED << pgn, pgjobs, pgtotal, pgdone, pgval >>
    /\ ProgFrame

\* part_003:354 and 352 : the list is worked off and the queue closed; the
\* range ends and the worker returns
ProgExit(w) ==
    /\ pgpc[w] = "recv"
    /\ pgjobs = 0
    /\ pgpc' = [ pgpc EXCEPT ![w] = "exited" ]
    /\ UNCHANGED << pgn, pgjobs, pgtotal, pgdone, pgval, pgout >>
    /\ ProgFrame

ProgNext ==
    \E w \in 1..pgn :
        \/ ProgRecv(w) \/ ProgProbe(w) \/ ProgAdd(w) \/ ProgLoad(w) \/ ProgPrint(w)
        \/ ProgExit(w)

ProgSpec == ProgInit /\ [][ProgNext]_vars


(* ======================================================================= *)
(* The sequential scanners: scanBuckets, one loop iteration per step       *)
(* ======================================================================= *)

\* the revisions: "first" main.go:266-327, "plain" part_000:164-178,
\* "override" part_002:521-542, "either" main.go:1234-1256
Revisions == { "first", "plain", "override", "either" }

\* two of the names generateWordlist("acme", <<"data">>) returns; scanBuckets
\* meets them in any order
SeqNames == { "acme", "acme-data" }

SeqInit ==
    /\ GenIdle
    /\ ScanIdle
    /\ LoadIdle
    /\ WrIdle
    /\ PermIdle
    /\ NetIdle
    /\ ProgIdle
    /\ srev \in Revisions
    /\ suseAWS \in (IF srev = "plain" THEN { FALSE } ELSE BOOLEAN)
    /\ sfileOpen \in BOOLEAN
    /\ slist \in { q \in SeqsUpTo(SeqNames, MaxScan) :
                     /\ Len(q) > 0
                     /\ \A i, j \in 1..Len(q) : q[i] = q[j] => i = j
                     /\ Range(q) \subseteq BagToSet(generateWordlist("acme", << "data" >>)) }
    /\ si = 0
    /\ sseen = {}
    /\ sconsole = << >>
    /\ sfile = << >>
    /\ sobs = << >>
    /\ sphase = "scan"
    /\ smatches = << >>
    /\ sj = 0
    /\ sfseen = {}
    /\ sfeeds = << >>

\* writeLine: the line goes to the console and, with a file, to the file
WriteLines(printed, written) ==
    /\ sconsole' = sconsole \o printed
    /\ sfile' = IF sfileOpen THEN sfile \o written ELSE sfile

\* main.go:276-326 : one iteration of the first revision
ScanBuckets_first ==
    /\ srev = "first"
    /\ si < Len(slist)
    /\ LET word == slist[si + 1] IN
       IF word \in sseen
       THEN /\ UNCHANGED << sseen, sconsole, sfile, sobs >>
       ELSE \E resp \in Responses, head \in Heads, aws \in AwsRuns, list \in Listings :
              LET ex == Exists_301(resp)
                  region == GetRegion(head)
                  acl == checkACL(suseAWS, aws)
                  stats == getBucketStats(list)
                  line == IF ~ex.exists THEN notExistLine(bucketURL(word), ex.code)
                          ELSE IF stats[1] = 0 THEN privateLine(bucketURL(word), region)
                          ELSE statsLine(bucketURL(word), region, acl[1], acl[2],
                                         stats[1], stats[2])
              IN  /\ sseen' = sseen \cup { word }
                  /\ WriteLines(<< line >>, << line >>)
                  /\ sobs' = Append(sobs, [ bucket |-> word, resp |-> resp,
                                            exists |-> ex.exists, code |-> ex.code,
                                            perm |-> IF ex.exists /\ stats[1] = 0
                                                     THEN "PRIVATE" ELSE "",
                                            lines |-> << line >> ])
    /\ si' = si + 1
    /\ UNCHANGED << srev, suseAWS, sfileOpen, slist >>
    /\ UNCHANGED << sphase, smatches, sj, sfseen, sfeeds >>
    /\ UNCHANGED << genVars, scanVars, loadVars, wrVars, permVars, netVars, progVars >>

\* part_000:167-177 : one iteration
ScanBuckets_plain ==
    /\ srev = "plain"
    /\ si < Len(slist)
    /\ \E resp \in Responses :
          LET word == slist[si + 1]
              c == Check(resp)
              out == IF c.perm = "" THEN << >>
                     ELSE << resultLine(bucketURL(word), c.code, c.perm) >>
          IN  /\ WriteLines(out, out)
              /\ sobs' = Append(sobs, [ bucket |-> word, resp |-> resp,
                                        exists |-> c.perm # "", code |-> c.code,
                                        perm |-> c.perm, lines |-> out ])
    /\ si' = si + 1
    /\ UNCHANGED << srev, suseAWS, sfileOpen, slist, sseen >>
    /\ UNCHANGED << sphase, smatches, sj, sfseen, sfeeds >>
    /\ UNCHANGED << genVars, scanVars, loadVars, wrVars, permVars, netVars, progVars >>

\* part_002:524-541 : one iteration; the CLI result replaces the HTTP one
ScanBuckets_override ==
    /\ srev = "override"
    /\ si < Len(slist)
    /\ \E resp \in Responses, aws \in AwsRuns :
          LET word == slist[si + 1]
              c == Check(resp)
              awsPerm == awsPermissionCheck(suseAWS, aws)
              perm == IF awsPerm # "" THEN awsPerm ELSE c.perm
              out == IF perm = "" THEN << >>
                     ELSE << resultLine(bucketURL(word), c.code, perm) >>
          IN  /\ WriteLines(out, out)
              /\ sobs' = Append(sobs, [ bucket |-> word, resp |-> resp,
                                        exists |-> perm # "", code |-> c.code,
                                        perm |-> perm, lines |-> out ])
    /\ si' = si + 1
    /\ UNCHANGED << srev, suseAWS, sfileOpen, slist, sseen >>
    /\ UNCHANGED << sphase, smatches, sj, sfseen, sfeeds >>
    /\ UNCHANGED << genVars, scanVars, loadVars, wrVars, permVars, netVars, progVars >>

\* main.go:1237-1255 : one iteration; classifyPermissions decides the
\* permission of every bucket Check found
ScanBuckets_either ==
    /\ srev = "either"
    /\ si < Len(slist)
    /\ \E resp \in Responses, list \in Listings, aws \in AwsRuns :
          LET word == slist[si + 1]
              c == Check(resp)
              perm == IF c.perm = "" THEN ""
                      ELSE classifyPermissions_either(list, suseAWS, aws)
              line == resultLine(bucketURL(word), c.code, perm)
              printed == IF c.perm = "" THEN << >>
                         ELSE << Sprintf(<< "Testing: ", "%s", " FOUND! (", "%d", ")" >>,
                                         << word, Itoa(c.code) >>),
                                 Sprintf(<< "Permissions: ", "%s" >>, << perm >>),
                                 line >>
              written == IF c.perm = "" THEN << >> ELSE << line >>
          IN  /\ WriteLines(printed, written)
              /\ sobs' = Append(sobs, [ bucket |-> word, resp |-> resp,
                                        exists |-> c.perm # "", code |-> c.code,
                                        perm |-> perm, lines |-> written ])
    /\ si' = si + 1
    /\ UNCHANGED << srev, suseAWS, sfileOpen, slist, sseen >>
    /\ UNCHANGED << sphase, smatches, sj, sfseen, sfeeds >>
    /\ UNCHANGED << genVars, scanVars, loadVars, wrVars, permVars, netVars, progVars >>

(* ---- scanBuckets as a function of its list argument ---- *)

\* scanBuckets(list, file) called with any list over two names, a name
\* occurring twice included
ListInit ==
    /\ GenIdle
    /\ ScanIdle
    /\ LoadIdle
    /\ WrIdle
    /\ PermIdle
    /\ NetIdle
    /\ ProgIdle
    /\ srev \in Revisions
    /\ suseAWS \in (IF srev = "plain" THEN { FALSE } ELSE BOOLEAN)
    /\ sfileOpen \in BOOLEAN
    /\ slist \in { q \in SeqsUpTo(SeqNames, MaxScan) : Len(q) > 0 }
    /\ si = 0
    /\ sseen = {}
    /\ sconsole = << >>
    /\ sfile = << >>
    /\ sobs = << >>
    /\ sphase = "scan"
    /\ smatches = << >>
    /\ sj = 0
    /\ sfseen = {}
    /\ sfeeds = << >>

ListNext == ScanBuckets_first \/ ScanBuckets_plain \/ ScanBuckets_override
            \/ ScanBuckets_either

ListSpec == ListInit /\ [][ListNext]_vars

(* ---- searchGrayHat and searchOSINT, which main calls after scanBuckets ---- *)

\* what the GrayHatWarfare request of searchGrayHat can meet: no key (the
\* request is not sent), Do fails, status 403 with a body that names a bucket,
\* status 200 with no bucket, status 200 with a bucket.  names: the values the
\* expression "bucket":"..." matches in the body, which is read whatever the
\* status; a read error is dropped
SearchGhwAnswers ==
    { [ key |-> "",  err |-> FALSE, status |-> 200, readErr |-> FALSE,
        names |-> << "acme-backup" >> ],
      [ key |-> "k", err |-> TRUE,  status |-> 0,   readErr |-> FALSE, names |-> << >> ],
      [ key |-> "k", err |-> FALSE, status |-> 403, readErr |-> FALSE,
        names |-> << "acme-backup" >> ],
      [ key |-> "k", err |-> FALSE, status |-> 200, readErr |-> FALSE, names |-> << >> ],
      [ key |-> "k", err |-> FALSE, status |-> 200, readErr |-> FALSE,
        names |-> << "acme-backup" >> ] }

\* what the osint.sh request of searchOSINT can meet: Get fails, status 500
\* with a page that names a bucket, the body cannot be read, status 200 with
\* no bucket, status 200 with a bucket
SearchOsintAnswers ==
    { [ key |-> "", err |-> TRUE,  status |-> 0,   readErr |-> FALSE, names |-> << >> ],
      [ key |-> "", err |-> FALSE, status |-> 500, readErr |-> FALSE,
        names |-> << "acme" >> ],
      [ key |-> "", err |-> FALSE, status |-> 200, readErr |-> TRUE,
        names |-> << "acme" >> ],
      [ key |-> "", err |-> FALSE, status |-> 200, readErr |-> FALSE, names |-> << >> ],
      [ key |-> "", err |-> FALSE, status |-> 200, readErr |-> FALSE,
        names |-> << "acme" >> ] }

\* the matches searchGrayHat ranges over (part_000:184-214, main.go:1261-1290)
grayHatMatches(a) ==
    IF a.key = "" THEN << >>
    ELSE IF a.err THEN << >>
    ELSE a.names

\* the matches searchOSINT ranges over (part_000:246-258, main.go:1327-1339)
osintMatches(a) ==
    IF a.err THEN << >>
    ELSE IF a.readErr THEN << >>
    ELSE a.names

\* one iteration of the loop both searches share (part_000:218-234 and
\* 262-278, main.go:1294-1316 and 1343-1365)
SearchIteration ==
    /\ sj < Len(smatches)
    /\ LET bucket == smatches[sj + 1] IN
       IF bucket \in sfseen
       THEN UNCHANGED << sfseen, sconsole, sfile, sobs >>
       ELSE /\ sfseen' = sfseen \cup { bucket }
            /\ \E resp \in Responses :
                  LET c == Check(resp)
                      perms == IF c.perm = "" THEN { "" }
                               ELSE IF srev = "either"
                               THEN { classifyPermissions_either(list, suseAWS, aws) :
                                        list \in Listings, aws \in AwsRuns }
                               ELSE { c.perm }
                  IN  \E perm \in perms :
                        LET line == resultLine(bucketURL(bucket), c.code, perm)
                            printed ==
                                IF c.perm = "" THEN << >>
                                ELSE IF srev = "either"
                                THEN << Sprintf(<< "Testing: ", "%s", " FOUND! (", "%d", ")" >>,
                                                << bucket, Itoa(c.code) >>),
                                        Sprintf(<< "Permissions: ", "%s" >>, << perm >>),
                                        line >>
                                ELSE << line >>
                            written == IF c.perm = "" THEN << >> ELSE << line >>
                        IN  /\ WriteLines(printed, written)
                            /\ sobs' = Append(sobs, [ bucket |-> bucket, resp |-> resp,
                                                      exists |-> c.perm # "",
                                                      code |-> c.code,
                                                      perm |-> perm, lines |-> written ])
    /\ sj' = sj + 1
    /\ UNCHANGED << srev, suseAWS, sfileOpen, slist, si, sseen, sphase, smatches, sfeeds >>
    /\ UNCHANGED << genVars, scanVars, loadVars, wrVars, permVars, netVars, progVars >>

\* part_000:322-323 and 183-216, main.go:1405-1406 and 1260-1292 :
\* scanBuckets has returned and searchGrayHat sends its request
SearchGrayHat ==
    /\ srev \in { "plain", "either" }
    /\ sphase = "scan"
    /\ si = Len(slist)
    /\ \E a \in SearchGhwAnswers :
          /\ smatches' = grayHatMatches(a)
          /\ sfeeds' = Append(sfeeds, [ feed |-> "grayhat", answer |-> a,
                                        queried |-> a.key # "",
                                        taken |-> grayHatMatches(a),
                                        probesBefore |-> Len(sobs) ])
    /\ sphase' = "grayhat"
    /\ sj' = 0
    /\ sfseen' = {}
    /\ UNCHANGED << srev, suseAWS, sfileOpen, slist, si, sseen, sconsole, sfile, sobs >>
    /\ UNCHANGED << genVars, scanVars, loadVars, wrVars, permVars, netVars, progVars >>

\* the loop of searchGrayHat
SearchGrayHatLoop ==
    /\ sphase = "grayhat"
    /\ SearchIteration

\* part_000:324 and 240-260, main.go:1407 and 1321-1341 : searchGrayHat has
\* returned and searchOSINT sends its request
SearchOSINT ==
    /\ sphase = "grayhat"
    /\ sj = Len(smatches)
    /\ \E a \in SearchOsintAnswers :
          /\ smatches' = osintMatches(a)
          /\ sfeeds' = Append(sfeeds, [ feed |-> "osint", answer |-> a,
                                        queried |-> TRUE,
                                        taken |-> osintMatches(a),
                                        probesBefore |-> Len(sobs) ])
    /\ sphase' = "osint"
    /\ sj' = 0
    /\ sfseen' = {}
    /\ UNCHANGED << srev, suseAWS, sfileOpen, slist, si, sseen, sconsole, sfile, sobs >>
    /\ UNCHANGED << genVars, scanVars, loadVars, wrVars, permVars, netVars, progVars >>

\* the loop of searchOSINT
SearchOSINTLoop ==
    /\ sphase = "osint"
    /\ SearchIteration

SeqNext == ScanBuckets_first \/ ScanBuckets_plain \/ ScanBuckets_override
           \/ ScanBuckets_either
           \/ SearchGrayHat \/ SearchGrayHatLoop \/ SearchOSINT \/ SearchOSINTLoop

SeqSpec == SeqInit /\ [][SeqNext]_vars

(* ======================================================================= *)
(* Properties of the concurrent scanner                                    *)
(* ======================================================================= *)

\* in how many places candidate b is waiting to be probed: slots of the
\* queue, and workers that hold it and have not issued the GET yet
Pending(b) ==
    Cardinality({ i \in 1..Len(jobs) : jobs[i] = b })
    + Cardinality({ w \in Workers : wbucket[w] = b /\ wpc[w] \in { "rate", "probe" } })

\* C1: every candidate sent on the jobs queue is, from then on, either
\* waiting in exactly one place (the queue or one worker) or has been probed
\* exactly once; a candidate not yet sent is nowhere; and when main reports
\* Done every candidate of the duplicate-free list has been probed once, so
\* the number of probes equals the number of candidates.
C1_ExactlyOnce ==
    /\ Len(wordlist) = Cardinality(Range(wordlist))
    /\ DOMAIN probes = Range(wordlist)
    /\ \A i \in 1..Len(wordlist) :
          Pending(wordlist[i]) + probes[wordlist[i]] = (IF i <= sent THEN 1 ELSE 0)
    /\ mainpc = "done" =>
          /\ \A b \in Range(wordlist) : probes[b] = 1
          /\ totalChecks = Cardinality(Range(wordlist))
          /\ doneReport = Cardinality(Range(wordlist))

\* C1 witness: a run with two workers and two candidates has reported Done
\* with both probed.
C1_Witness ==
    /\ mainpc = "done"
    /\ concurrency = 2
    /\ Len(wordlist) = 2
    /\ \A b \in Range(wordlist) : probes[b] = 1

\* C2: with at least one worker, once main starts the pool the run reaches
\* Done; and Done is only reached with every candidate sent and probed, the
\* queue closed and empty and every worker exited.
C2_Terminates ==
    /\ [](mainpc = "done" =>
            /\ sent = Len(wordlist)
            /\ jobsClosed
            /\ jobs = << >>
            /\ \A w \in 1..concurrency : wpc[w] = "exited"
            /\ \A b \in Range(wordlist) : probes[b] = 1)
    /\ ((mainpc = "spawn" /\ concurrency >= 1) ~> (mainpc = "done"))

\* C2 witness: a rate-limited run over two candidates has reported Done.
C2_Witness ==
    /\ mainpc = "done"
    /\ concurrency >= 1
    /\ rateLimit > 0
    /\ Len(wordlist) = 2
    /\ totalChecks = 2

\* the codes the -e flag names, for the flag values that are tried
NamedExcluded == IF exclude = "" THEN {} ELSE { 403 }

\* the acceptance rule as the specification states it
Accepted(r) ==
    /\ r.exists
    /\ statusFilter = 0 \/ r.code = statusFilter
    /\ r.code \notin NamedExcluded

\* the lines of a bag of output lines that name candidate b's endpoint
LinesOf(b, out) == { l \in BagToSet(out) : Contains(l, bucketURL(b)) }

\* C4: a result line is printed only for a probe result that exists, matches
\* the include code when one is set and is not excluded, and it carries that
\* result's status; once the run is done every such result has exactly one
\* line on the console (and in the file when there is one and the write did
\* not fail), and no other result has any.
C4_EmittedIffAccepted ==
    \A b \in DOMAIN results :
        /\ \A l \in LinesOf(b, console) \cup LinesOf(b, fileLines) :
              /\ Len(results[b]) = 1
              /\ Accepted(results[b][1])
              /\ l = foundLine(bucketURL(b), results[b][1].code)
        /\ LinesOf(b, fileLines) # {} => outFile = "open"
        /\ (mainpc = "done" /\ Accepted(results[b][1])) =>
              /\ LinesOf(b, console) # {}
              /\ \A l \in LinesOf(b, console) : CopiesIn(l, console) = 1
              /\ \A l \in LinesOf(b, fileLines) : CopiesIn(l, fileLines) = 1
              /\ (outFile = "open" /\ b \notin writeFailed) =>
                    LinesOf(b, fileLines) # {}

\* C4 witness: with -s 200 a finished run has printed the line of a
\* status-200 result and none for a status-403 result.
C4_Witness ==
    /\ mainpc = "done"
    /\ statusFilter = 200
    /\ \E b, c \in DOMAIN results :
          /\ results[b][1].code = 200
          /\ results[c][1].code = 403
          /\ LinesOf(b, console) # {}
          /\ LinesOf(c, console) = {}

\* C7 (as claimed): every line printed for a candidate is
\* `<url> | <statusCode> | <permission>` with permission PUBLIC or PRIVATE.
C7_ThreeFieldLine ==
    \A b \in DOMAIN results :
        \A l \in LinesOf(b, console) \cup LinesOf(b, fileLines) :
            \E perm \in { "PUBLIC", "PRIVATE" } :
                l = bucketURL(b) \o " | " \o Itoa(results[b][1].code) \o " | " \o perm

\* C15: a GET that fails at transport level makes checkBucket (and S3.Exists
\* of main.go:107) return existsFlag false with status 0; the worker goes on:
\* when the run is done every candidate has its one result, those after a
\* failed one included.
C15_TransportFailureIsValue ==
    /\ \A b \in DOMAIN results :
          \A i \in 1..Len(results[b]) :
              results[b][i].err =>
                  /\ ~results[b][i].exists
                  /\ results[b][i].code = 0
                  /\ results[b][i].url = bucketURL(b)
    /\ \A resp \in Responses :
          resp.err => Exists_301(resp) = [ exists |-> FALSE, code |-> 0 ]
    /\ mainpc = "done" => \A b \in Range(wordlist) : Len(results[b]) = 1

\* C15 witness: a single worker met a transport failure on its first
\* candidate, found the second one and the run is done.
C15_Witness ==
    /\ mainpc = "done"
    /\ concurrency = 1
    /\ Len(wordlist) = 2
    /\ results[wordlist[1]][1].err
    /\ results[wordlist[2]][1].exists
    /\ LinesOf(wordlist[2], console) # {}

C20_WriteFailureSurfaced ==
    writeFailed # {} =>
        /\ \E l \in BagToSet(console) :
              \A b \in DOMAIN results : l \notin LinesOf(b, console)
        /\ mainpc = "done" => \A b \in Range(wordlist) : probes[b] = 1

(* ======================================================================= *)
(* Properties of the sequential scanners                                   *)
(* ======================================================================= *)

\* C3 (as claimed): no line, on the console or in the file, names the
\* endpoint of a candidate whose existsFlag is false.
C3_NoLineForAbsent ==
    \A i \in 1..Len(sobs) :
        ~sobs[i].exists =>
            \A l \in Range(sconsole) \cup Range(sfile) :
                ~Contains(l, bucketURL(sobs[i].bucket))

\* C5 (as claimed): in the revision of main.go:1234 a candidate whose GET
\* returns 403 is written as `<url> | 403 | PRIVATE`, whatever the listing
\* request and the CLI say.
C5_403IsPrivate ==
    srev = "either" =>
        \A i \in 1..Len(sobs) :
            (~sobs[i].resp.err /\ sobs[i].resp.status = 403) =>
                sobs[i].lines = << bucketURL(sobs[i].bucket) \o " | 403 | PRIVATE" >>

\* C6 (as claimed): a written result line has status 200 exactly when its
\* permission is PUBLIC.
C6_200IffPublic ==
    srev \in { "plain", "either", "override" } =>
        \A i \in 1..Len(sobs) :
            sobs[i].lines # << >> =>
                (sobs[i].code = 200 <=> sobs[i].perm = "PUBLIC")

\* the answers that count as failures of a feed: no credential, a transport
\* error, a status other than 200, a body that could not be read
FeedFailed(f) ==
    \/ f.feed = "grayhat" /\ f.answer.key = ""
    \/ f.answer.err
    \/ f.answer.status # 200
    \/ f.answer.readErr

\* C13 (as claimed): a feed whose credential is missing, whose request
\* fails, whose status is not 200 or whose body cannot be read contributes no
\* candidate.
C13_FailedFeedGivesNothing ==
    \A i \in 1..Len(sfeeds) : FeedFailed(sfeeds[i]) => sfeeds[i].taken = << >>

\* C14 (as claimed): every feed request is sent before the first candidate
\* is probed.
C14_FeedsBeforeProbes ==
    \A i \in 1..Len(sfeeds) : sfeeds[i].queried => sfeeds[i].probesBefore = 0

\* C16 (as claimed): a candidate whose GET fails at transport level has
\* existsFlag false, no permission and no result line.
C16_TransportFailureUnclassified ==
    \A i \in 1..Len(sobs) :
        sobs[i].resp.err =>
            /\ ~sobs[i].exists
            /\ sobs[i].perm = ""
            /\ srev # "first" => sobs[i].lines = << >>

(* ======================================================================= *)
(* Properties of generateWordlist                                          *)
(* ======================================================================= *)

\* every element of the returned list occurs in it once
NoDuplicates(bag) == \A s \in BagToSet(bag) : CopiesIn(s, bag) = 1

\* the candidate set as the specification words it, written out with plain
\* concatenation
SpecCandidates(t, W) ==
    {t}
    \cup UNION { { t \o "-" \o w \o "-" \o e,
                   t \o "-" \o w \o "." \o e,
                   t \o "-" \o w \o e,
                   t \o "." \o w \o "-" \o e,
                   t \o "." \o w \o "." \o e } :
                 w \in Range(W), e \in { "dev", "development", "stage", "s3",
                                         "staging", "prod", "production", "test" } }
    \cup UNION { { t \o "." \o w, t \o "-" \o w, t \o w,
                   w \o "." \o t, w \o "-" \o t, w \o t } : w \in Range(W) }

\* C8: for every target and word list (empty and with duplicate words
\* included) the list returned by generateWordlist, in each revision,
\* contains the target itself.
C8_TargetIncluded ==
    /\ gpc = "ret" => BagIn(gprefix, gret)
    /\ gpc = "feeds" => gprefix \in gunique

\* C8 witness: a call with a word list holding the same word twice has
\* returned and the target is in the list.
C8_Witness ==
    /\ gpc = "ret"
    /\ gwords = << "b", "b" >>
    /\ gprefix = "a"
    /\ BagIn("a", gret)

\* C9 (as claimed): generateWordlist of main.go:228 and of part_001:101
\* returns exactly target, the env-tag combinations and the six two-part
\* combinations, each once.
C9_ExactCandidateSet ==
    (gpc = "ret" /\ gfn \in { "envOnly", "full" }) =>
        /\ BagToSet(gret) = SpecCandidates(gprefix, gwords)
        /\ NoDuplicates(gret)

\* C11 (as claimed): two calls of generateWordlist (part_001:101 or
\* part_003:305) with the same target and words return the same set,
\* whatever the feeds answer.
C11_Deterministic ==
    (/\ gpc = "ret"
     /\ gprev # << >>
     /\ gfn \in { "full", "feeds" }
     /\ gprev[1].fn = gfn
     /\ gprev[1].prefix = gprefix
     /\ gprev[1].words = gwords) => BagToSet(gret) = gprev[1].ret

\* C12: the list generateWordlist of part_003 returns, which main hands to
\* the workers, holds exactly the generated combinations, the names the
\* GrayHatWarfare call returned and the names the osint.sh call returned,
\* each string once.
C12_UnionOfSources ==
    (gfn = "feeds" /\ gpc = "ret") =>
        /\ BagToSet(gret) = SpecCandidates(gprefix, gwords) \cup Range(gghw)
                                                              \cup Range(gosint)
        /\ NoDuplicates(gret)

\* C12 witness: a call has returned where one feed gave a name that is no
\* generated combination and the other gave a name that is one.
C12_Witness ==
    /\ gfn = "feeds" /\ gpc = "ret"
    /\ gprefix = "acme"
    /\ gwords = << "data" >>
    /\ gghw = << "acme-backup" >>
    /\ gosint = << "acme" >>
    /\ BagIn("acme-backup", gret)
    /\ CopiesIn("acme", gret) = 1

\* the strings of the acme/data scenario, spelled out: the target, five
\* templates for each of the eight tags, six two-part combinations
AcmeData ==
    { "acme", "acme-data-dev", "acme-data.dev",
      "acme-datadev", "acme.data-dev", "acme.data.dev",
      "acme-data-development", "acme-data.development", "acme-datadevelopment",
      "acme.data-development", "acme.data.development", "acme-data-stage",
      "acme-data.stage", "acme-datastage", "acme.data-stage",
      "acme.data.stage", "acme-data-s3", "acme-data.s3",
      "acme-datas3", "acme.data-s3", "acme.data.s3",
      "acme-data-staging", "acme-data.staging", "acme-datastaging",
      "acme.data-staging", "acme.data.staging", "acme-data-prod",
      "acme-data.prod", "acme-dataprod", "acme.data-prod",
      "acme.data.prod", "acme-data-production", "acme-data.production",
      "acme-dataproduction", "acme.data-production", "acme.data.production",
      "acme-data-test", "acme-data.test", "acme-datatest",
      "acme.data-test", "acme.data.test", "acme.data",
      "acme-data", "acmedata", "data.acme",
      "data-acme", "dataacme" }

\* the part of the acme/data scenario every statement of it agrees on: what
\* the strings are, wherever the permutation loops of part_001 / part_003
\* have run
AcmeDataStrings ==
    /\ (gfn = "full" /\ gpc = "ret") =>
          /\ BagToSet(gret) = AcmeData
          /\ NoDuplicates(gret)
    /\ (gfn = "feeds" /\ gpc = "feeds") => gunique = AcmeData
    /\ (gfn = "feeds" /\ gpc = "ret") =>
          /\ AcmeData \subseteq BagToSet(gret)
          /\ NoDuplicates(gret)

\* C10 (as claimed): for target "acme" and words ["data"] the generator
\* yields 42 unique strings in total.
C10_Claimed42 ==
    (gprefix = "acme" /\ gwords = << "data" >> /\ gfn \in { "full", "feeds" }) =>
        /\ AcmeDataStrings
        /\ (gfn = "full" /\ gpc = "ret") => Cardinality(BagToSet(gret)) = 42
        /\ (gfn = "feeds" /\ gpc = "feeds") => Cardinality(gunique) = 42

\* C10 (amended): for target "acme" and words ["data"] the generator yields
\* 47 unique strings in total (1 + 8 x 5 + 6, no two of them equal): "acme",
\* the five env templates for each of the 8 environments and the six
\* two-part combinations.  part_001 returns exactly these, each once; the
\* feed revision of part_003 holds exactly these after its permutation loops
\* (line 332) and returns each of them once.
C10_AcmeData47 ==
    (gprefix = "acme" /\ gwords = << "data" >> /\ gfn \in { "full", "feeds" }) =>
        /\ AcmeDataStrings
        /\ (gfn = "full" /\ gpc = "ret") => Cardinality(BagToSet(gret)) = 47
        /\ (gfn = "feeds" /\ gpc = "feeds") => Cardinality(gunique) = 47

\* C10 witness: the acme/data call of part_001 has returned 47 strings.
C10_Witness ==
    /\ gpc = "ret"
    /\ gfn = "full"
    /\ gprefix = "acme"
    /\ gwords = << "data" >>
    /\ Cardinality(BagToSet(gret)) = 47

(* ----------------------------------------------------------------------- *)
\* one second in half tick intervals: rateLimit intervals
Window == 2 * rateLimit

\* the probes started in the second that begins at clock t
StartsIn(t) == Cardinality({ i \in DOMAIN starts : t <= starts[i] /\ starts[i] < t + Window })

\* the second that begins at t lies in the middle of the scan: the first
\* probe started at least a second before it and a probe starts at least a
\* second after its end
MidScan(t) ==
    /\ starts # << >>
    /\ starts[1] + Window <= t
    /\ \E i \in DOMAIN starts : t + 2 * Window <= starts[i]

\* C17: with a rate limit R > 0 and at least R workers, no second in the
\* middle of the scan (one second of slack after its start and before its
\* end) has more than R probe starts.
C17_RateBound ==
    (rateLimit > 0 /\ concurrency >= rateLimit) =>
        \A t \in 0..MaxClock : MidScan(t) => StartsIn(t) <= rateLimit

(* ----------------------------------------------------------------------- *)
\* main has loaded the word list
WordsLoaded == lpc \in { "returnEmpty", "generate", "createOut", "failCreate", "scan", "done" }

\* C19: a word list without words does not abort the run: the candidates
\* are generated, the target among them, and all of them are probed.
C19_EmptyListNoAbort ==
    (WordsLoaded /\ globalWordlist = << >>) =>
        /\ lpc # "returnEmpty"
        /\ lpc \in { "createOut", "failCreate", "scan", "done" } => ltarget \in lwordlist
        /\ lpc = "done" => lscanned = Cardinality(lwordlist) /\ lscanned >= 1

(* ----------------------------------------------------------------------- *)
\* the pieces of one Write call lie next to each other in the stream
Contiguous(st) ==
    \A i \in 1..Len(st) :
        st[i].piece > 1 =>
            /\ i > 1
            /\ st[i - 1].worker = st[i].worker
            /\ st[i - 1].stage = st[i].stage
            /\ st[i - 1].job = st[i].job
            /\ st[i - 1].piece = st[i].piece - 1

WorkerAt(b, places) == \E w \in Workers : wbucket[w] = b /\ wpc[w] \in places

\* the WriteString calls made with this line for candidate b: the line is in
\* the file once per call that succeeded, and b is noted when the call failed
FileCalls(b, l) == CopiesIn(l, fileLines) + (IF b \in writeFailed THEN 1 ELSE 0)

SignalsOf(kind) == { i \in 1..Len(psig) : psig[i].kind = kind }

\* C23: for one candidate each signal (existence GET, listing request,
\* region HEAD, CLI run) is attempted at most once.
C23_EachSignalOnce ==
    \A kind \in { "GET", "HEAD", "LIST", "CLI" } : Cardinality(SignalsOf(kind)) <= 1

(* ----------------------------------------------------------------------- *)
\* the GETs that have returned, over all candidates
RECURSIVE ProbesDone(_)
ProbesDone(S) ==
    IF S = {} THEN 0
    ELSE LET b == CHOOSE x \in S : TRUE IN probes[b] + ProbesDone(S \ { b })

\* the workers whose GET has returned and whose increment is still to come
Uncounted == Cardinality({ w \in Workers : wpc[w] = "count" })

C25_EnvInsertions ==
    (gpc \in { "feeds", "ret" }) =>
        LET ins == envInsertions(gprefix, gwords)
        IN  /\ Len(ins) = Len(gwords) * 8 * 5
            /\ Range(ins) \subseteq gunique
            /\ gpc = "ret" =>
                  /\ \A i \in 1..Len(ins) : CopiesIn(ins[i], gret) = 1
                  /\ Cardinality({ c \in BagToSet(gret) : c \in Range(ins) })
                        = Cardinality(Range(ins))

\* generateWordlist("a", <<"b", "b-">>) has returned: the template "%s-%s-%s"
\* on the word "b" and the template "%s-%s%s" on the word "b-" both gave
\* "a-b-dev", which is in the list once, while the template "%s-%s-%s" gave a
\* different string for each word
C25_Witness ==
    /\ gpc = "ret"
    /\ gfn = "full"
    /\ gprefix = "a"
    /\ gwords = << "b", "b-" >>
    /\ Sprintf(envFormats[1], << "a", "b", "dev" >>) = Sprintf(envFormats[3], << "a", "b-", "dev" >>)
    /\ Sprintf(envFormats[1], << "a", "b", "dev" >>) # Sprintf(envFormats[1], << "a", "b-", "dev" >>)
    /\ CopiesIn("a-b-dev", gret) = 1
    /\ Cardinality(Range(envInsertions(gprefix, gwords))) < Len(gwords) * 8 * 5

(* ----------------------------------------------------------------------- *)
\* every probe result recorded so far
AllResults == UNION { Range(results[b]) : b \in DOMAIN results }

C27_ClassifyOnlyExisting ==
    (ppc # "exists" /\ ~pexists) =>
        SignalsOf("LIST") = {} /\ SignalsOf("CLI") = {}

(* ----------------------------------------------------------------------- *)
\* the listing answered 200 with a body that parses
Conclusive(list) == ~list.err /\ list.status = 200 /\ list.parses

\* some listing request of the candidate was conclusive / some CLI run of
\* the candidate ended with success
HttpPublic == \E i \in SignalsOf("LIST") : Conclusive(psig[i].ans)
CliPublic == \E i \in SignalsOf("CLI") : psig[i].ans.ok

\* C28: when the work on an existing candidate is done its permission is
\* PUBLIC if a listing request returned 200 with a parseable body or a CLI
\* run succeeded, and PRIVATE in every other case.
C28_PublicIffSignal ==
    (ppc = "done" /\ pexists) =>
        pperm = (IF HttpPublic \/ CliPublic THEN "PUBLIC" ELSE "PRIVATE")

(* ----------------------------------------------------------------------- *)
\* C29: every CLI run in the log of a candidate comes after a listing request
\* of that candidate, and every listing request before it was inconclusive.
C29_CliOnlyFallback ==
    \A i \in SignalsOf("CLI") :
        /\ \E j \in SignalsOf("LIST") : j < i
        /\ \A j \in SignalsOf("LIST") : j < i => ~Conclusive(psig[j].ans)

(* ----------------------------------------------------------------------- *)
\* the answers to the existence GET and to the first listing request of the
\* candidate, read off its log
FirstOf(kind) == psig[CHOOSE i \in SignalsOf(kind) : \A j \in SignalsOf(kind) : i <= j].ans

\* the permission the HTTP answers in the log give when no CLI takes part:
\* the revision's own status tests on the listing answer, or on the answer to
\* the existence GET where the revision sends no listing request
HttpPerm ==
    IF SignalsOf("LIST") # {}
    THEN IF prev = "first"
         THEN (IF getBucketStats(FirstOf("LIST"))[1] = 0 THEN "PRIVATE" ELSE "")
         ELSE (IF ~FirstOf("LIST").err /\ FirstOf("LIST").status = 200
               THEN "PUBLIC" ELSE "PRIVATE")
    ELSE IF prev \in { "plain", "override", "either" } /\ SignalsOf("GET") # {}
         THEN Check(FirstOf("GET")).perm
         ELSE ""

\* C30: with -aws off or with no aws binary found, the log of the candidate
\* holds no CLI run and its permission is the one the HTTP answers give; the
\* binary is not even looked for with -aws off.
C30_NoCliWhenOff ==
    /\ ~paws => plook = "none"
    /\ (~paws \/ plook = "missing") =>
          /\ SignalsOf("CLI") = {}
          /\ pperm = HttpPerm

\* -aws is set, no binary was found, and the work on a candidate that exists
\* and whose listing was refused is done: it is PRIVATE
C30_Witness ==
    /\ ppc = "done" /\ paws /\ plook = "missing" /\ pexists
    /\ SignalsOf("LIST") # {} /\ FirstOf("LIST").status = 403
    /\ pperm = "PRIVATE"

(* ----------------------------------------------------------------------- *)
\* C31: once the HEAD request of the candidate is logged, the region is the
\* x-amz-bucket-region header of its answer when there is one and us-east-1
\* when there is none or the request failed; the candidate still exists and
\* its status code is still the one of the existence GET.
C31_RegionBaseline ==
    SignalsOf("HEAD") # {} =>
        /\ pregion = (IF ~FirstOf("HEAD").err /\ FirstOf("HEAD").hdr # ""
                      THEN FirstOf("HEAD").hdr ELSE "us-east-1")
        /\ pexists
        /\ pcode = FirstOf("GET").status

(* ----------------------------------------------------------------------- *)
\* the probes scanBuckets has made of one name
ProbesOf(b) == { i \in 1..Len(sobs) : sobs[i].bucket = b }

C33_PipelineUnique ==
    \A i, j \in 1..Len(sobs) : sobs[i].bucket = sobs[j].bucket => i = j

(* ----------------------------------------------------------------------- *)
\* C34: every request generateWordlist sends to a feed is made by a client
\* with a timeout, and generateWordlist always gets past its feeds, so that
\* the scan can start.
C34_FeedsBounded ==
    /\ [](nprog = "aggregate" /\ npc = "waiting" => TimeoutOf(nprog, nsite) > 0)
    /\ [](nprog = "aggregate" => <>(nsite = "finished"))

(* ----------------------------------------------------------------------- *)
\* C35: every request made for a candidate (existence GET, region HEAD,
\* listing GET) is made by a client with a timeout, and the work on the
\* candidate always comes to its end.
C35_ProbeBounded ==
    /\ [](nprog \in { "checkBucket", "first", "second" } /\ npc = "waiting"
            => TimeoutOf(nprog, nsite) > 0)
    /\ [](nprog \in { "checkBucket", "first", "second" } => <>(nsite = "finished"))

(* ----------------------------------------------------------------------- *)
\* the workers started so far, and those about to send or sending their GET
Started == { w \in Workers : wpc[w] # "unborn" }
InFlight == { w \in Workers : wpc[w] = "probe" }

\* C36: the workers started are the first `spawned` ones and never more than
\* `concurrency`; from the first send on exactly `concurrency` workers have
\* been started; at most `concurrency` probes are in flight.
C36_FixedPool ==
    /\ Started = 1..spawned
    /\ spawned <= concurrency
    /\ (sent > 0 \/ mainpc \in { "send", "wait", "done" }) => spawned = concurrency
    /\ Cardinality(InFlight) <= concurrency

\* with one worker and two candidates sent, the worker is at its GET while
\* the other candidate waits in the queue
C36_Witness ==
    /\ concurrency = 1 /\ spawned = 1
    /\ sent = 2
    /\ wpc[1] = "probe"
    /\ Len(jobs) = 1

(* ----------------------------------------------------------------------- *)
\* C37: the queue is closed only with every candidate sent, in one step of
\* main and never reopened; after the close nothing is sent; a worker exits
\* only on a closed and empty queue; Done comes only after every worker has
\* exited, and the count it shows is the number of candidates.
C37_Shutdown ==
    /\ [](jobsClosed => sent = Len(wordlist) /\ mainpc \in { "wait", "done" })
    /\ [][jobsClosed' # jobsClosed =>
            ~jobsClosed /\ jobsClosed' /\ mainpc = "send" /\ mainpc' = "wait"]_vars
    /\ [][jobsClosed => sent' = sent
                       /\ (jobs' = jobs \/ (jobs # << >> /\ jobs' = Tail(jobs)))]_vars
    /\ [][\A w \in Workers :
            (wpc[w] # "exited" /\ wpc'[w] = "exited") => jobsClosed /\ jobs = << >>]_vars
    /\ [](mainpc = "done" =>
            /\ \A w \in Workers : wpc[w] \in { "exited", "unborn" }
            /\ Started = 1..concurrency
            /\ doneReport = Len(wordlist))

\* Done is reached with two workers exited and two candidates counted
C37_Witness ==
    /\ mainpc = "done" /\ jobsClosed
    /\ concurrency = 2 /\ wpc[1] = "exited" /\ wpc[2] = "exited"
    /\ Len(wordlist) = 2 /\ doneReport = 2

(* ----------------------------------------------------------------------- *)
\* C38: with concurrency 0 no worker is ever started, nothing is sent or
\* probed, the queue is not closed and Done is not reached; once main stands
\* at the send loop with its list it can take no further step.
C38_NoWorkersNoProgress ==
    concurrency = 0 =>
        /\ Started = {}
        /\ sent = 0 /\ jobs = << >> /\ ~jobsClosed
        /\ totalChecks = 0
        /\ \A b \in DOMAIN probes : probes[b] = 0
        /\ mainpc \notin { "wait", "done" }
        /\ (mainpc = "send" => Len(wordlist) > 0 /\ ~ENABLED MainStep)

\* main stands at the send loop with two candidates and no worker
C38_Witness ==
    /\ concurrency = 0
    /\ mainpc = "send"
    /\ Len(wordlist) = 2
    /\ sent = 0

(* ----------------------------------------------------------------------- *)
\* C39: in the order they are printed the progress lines carry values that
\* never go down, and each carries the number of checkBucket calls that had
\* returned when it was printed.
C39_ProgressMonotone ==
    /\ \A i, j \in 1..Len(pgout) : i < j => pgout[i].val <= pgout[j].val
    /\ \A i \in 1..Len(pgout) : pgout[i].val = pgout[i].done

\* C40: rate tokens do not accumulate. The ticker's channel holds no token or
\* one; it changes only by a tick that fills the empty channel (a tick that
\* finds it full is dropped and changes nothing) or by one worker that takes
\* the token and starts its probe; every rate-limited start takes the token
\* and leaves the channel empty, and on an empty channel no worker can start
\* before the next tick.
C40_TokensDoNotAccumulate ==
    /\ [](token \in { 0, 1 })
    /\ [](token = 0 => \A w \in Workers : ~ENABLED WorkerRate(w))
    /\ [][token' # token =>
            \/ /\ token = 0
               /\ token' = 1
               /\ ticker
               /\ wpc' = wpc
            \/ /\ token = 1
               /\ token' = 0
               /\ \E w \in Workers :
                     /\ wpc[w] = "rate"
                     /\ wpc' = [ wpc EXCEPT ![w] = "probe" ]]_vars
    /\ [][\A w \in Workers :
            (wpc[w] = "rate" /\ wpc'[w] = "probe") => (token = 1 /\ token' = 0)]_vars

\* one worker has taken the token and probes, the other waits for the next tick
C40_Witness ==
    /\ ticker
    /\ token = 0
    /\ wpc[1] = "probe"
    /\ wpc[2] = "rate"
    /\ Len(starts) = 1


====
